---- MODULE Spec2Model ----
(***************************************************************************)
(* State-machine model of the trading bot's failure-isolation, ledger and  *)
(* market-data code:                                                       *)
(*   - CircuitBreaker, RateLimiter, categorize_error, with_retry           *)
(*                               (src/src/infra/resilience.py)             *)
(*   - Trade / TradingState      (src/src/core/trader.py)                  *)
(*   - the control loops         (src/copybot_v2.py, src/bot.py,           *)
(*                                src/scripts/streak_bot.py)               *)
(*   - CachedOrderBook, PolymarketWebSocket, MarketDataCache               *)
(*                               (src/src/core/polymarket_ws.py)           *)
(*   - DelayImpactModel, PolymarketClient.get_execution_price              *)
(*                               (src/src/core/polymarket.py)              *)
(*   - ThreeBarMoMoStrategy      (src/packages/strategies/.../             *)
(*                                three_bar_momo.py)                       *)
(* The specifications share the variables:                                 *)
(*   SpecBreaker  one breaker driven by one caller thread                  *)
(*   SpecLedger   the in-memory TradingState methods called in any order   *)
(*   SpecPersist  the methods with save(), faults of the disk and restart  *)
(*   SpecBot      the control loop of a bot variant, with crash/restart    *)
(*   SpecGate     copybot_v2's loop as a client of breaker and limiter     *)
(*   SpecRetry    with_retry called with or without breaker and limiter    *)
(*   SpecLimiter  one rate limiter driven by one caller thread             *)
(*   SpecBook     the feed's connection loop handling book messages        *)
(*   SpecCache    SpecBook with the reads through MarketDataCache          *)
(*   SpecWalk     a reader walking the book while messages are handled     *)
(*   SpecPricing  one execution-pricing request answered by a pricing path *)
(*   SpecClassify categorize_error applied to one error                    *)
(*   SpecDelta    the feed handling one-change price_change messages       *)
(*   SpecThreads  one breaker shared by threads, lock section by section   *)
(*   SpecMomo     ThreeBarMoMoStrategy.evaluate applied to a run of candles *)
(*   SpecProbe    SpecGate with CIRCUIT_BREAKER_THRESHOLD set to 1          *)
(*   SpecStakes   the ledger as copybot_v2 drives it: can_trade, bet, settle*)
(***************************************************************************)
EXTENDS Integers, Sequences, FiniteSets, TLC

(***************************************************************************)
(* Program constants and model bounds                                      *)
(***************************************************************************)
\* CircuitBreaker.failure_threshold (Config.CIRCUIT_BREAKER_THRESHOLD)
failure_threshold == 5
\* CircuitBreaker.half_open_max_calls
half_open_max_calls == 3
\* CircuitBreaker.recovery_time, in clock ticks (configurable; scaled down)
recovery_time == 2
\* the clock runs from 0 to MaxTime
MaxTime == 5
\* cap on the breaker's unbounded counters _failures and _successes
MaxCount == 7
\* the threads that share one breaker
MaxThreads == 2

\* ThreeBarMoMoStrategy.default_params: size ($15, in cents) and size_cap
momo_size == 1500
momo_size_cap == 2
\* candles handed to one evaluate call
MaxCandles == 3
\* the largest `bars` parameter tried
MaxBarsParam == 3
\* CIRCUIT_BREAKER_THRESHOLD as configured for the loop of SpecProbe
ProbeThreshold == 1
\* the --bankroll argument of SpecStakes, in cents: one bet and a half
StakesBankroll == 150

\* Money is counted in cents, prices and fee rates in percent.
\* Config.MIN_BET ($1)
MIN_BET == 100
\* Config.BET_AMOUNT (configurable; scaled down to one minimum bet)
BET_AMOUNT == 100
\* Config.MAX_DAILY_BETS (configurable; scaled down)
MAX_DAILY_BETS == 1
\* Config.MAX_DAILY_LOSS (configurable; scaled down)
MAX_DAILY_LOSS == 100
\* TradingState.bankroll default (scaled down)
StartBankroll == 200
\* save() keeps self.trades[-100:] in the working state
WORKING_KEEP == 100
\* at most MaxTrades place_bet calls are made over a run
MaxTrades == 2
\* markets (5-minute windows) are numbered 1..MaxMarket
MaxMarket == 2
\* UTC days are numbered 1..MaxDay
MaxDay == 2
\* at most MaxSettles settle_trade calls are made in SpecLedger and SpecPersist
MaxSettles == 2
\* a poll returns at most MaxSignals signals
MaxSignals == 2
\* RateLimiter.requests_per_minute (Config.RATE_LIMIT_REQUESTS_PER_MINUTE; scaled down)
requests_per_minute == 2
\* RateLimiter.window_size, in clock ticks (scaled down)
window_size == 2

VARIABLES
    now,            \* time.time(), in ticks
    cb,             \* the CircuitBreaker object's fields
    cb_op,          \* history: the last operation applied to the breaker
    cb_from,        \* history: _state before the last operation
    cb_result,      \* history: what the last allow_request returned
    consec_failures,\* history: record_failure calls since the last record_success / reset
    ho_successes,   \* history: consecutive record_success calls made while half-open
    today,          \* datetime.now(timezone.utc) as a day number
    markets,        \* the venue: market timestamp -> "none" (open) or its outcome
    placed,         \* number of place_bet calls so far (the millisecond clock of executed_at)
    files,          \* the disk: trades.json (working) and trade_history_full.json (history)
    ledger,         \* the TradingState object of the running process
    pc,             \* where the process is
    bot,            \* the control loop's locals: running, bankrupt, pending, ...
    l_op,           \* history: the last TradingState call, its trade index, how it ended
    settles,        \* history: number of settle_trade calls made
    rl,             \* RateLimiter._requests, oldest first
    rl_admitted,    \* history: the time of every request the limiter admitted
    rl_result,      \* history: what the last RateLimiter.allow_request returned
    gate,           \* copybot_v2's loop as a client of the breaker and the limiter
    retry,          \* one with_retry call: its locals and how it ended
    orderbook,      \* PolymarketWebSocket._orderbooks[token]: <<>> or <<CachedOrderBook>>
    feed,           \* PolymarketWebSocket: connection, subscriptions, reconnects
    msg,            \* history: the last feed message handled and whether it raised
    served,         \* history: the last MarketDataCache read and where it was served from
    walk,           \* a reader walking the book: its locals
    delta,          \* history: the last one-change price_change message and the book before it
    quote,          \* one execution-pricing call: its arguments and what it returned
    classified,     \* one categorize_error call: the error and its category
    threads,        \* the threads sharing one breaker: each one's position and locals
    momo            \* one ThreeBarMoMoStrategy.evaluate call: candles, params, result

breakerVars == <<now, cb, cb_op, cb_from, cb_result, consec_failures, ho_successes>>

ledgerVars == <<today, markets, placed, files, ledger, pc, bot, l_op, settles>>

gateVars == <<rl, rl_admitted, rl_result, gate>>

retryVars == <<retry>>

feedVars == <<orderbook, feed, msg, served, walk, delta>>

calcVars == <<quote, classified, threads, momo>>

\* what the breaker's own actions leave alone, and what the ledger's leave alone
nonBreakerVars == <<ledgerVars, gateVars, retryVars, feedVars, calcVars>>

nonLedgerVars == <<breakerVars, gateVars, retryVars, feedVars, calcVars>>

\* what the loop's requests leave alone
nonGateVars == <<ledgerVars, retryVars, feedVars, calcVars>>

\* what the feed and the readers of the book leave alone
nonFeedVars == <<ledgerVars, gateVars, retryVars, calcVars>>

vars == <<now, cb, cb_op, cb_from, cb_result, consec_failures, ho_successes,
          today, markets, placed, files, ledger, pc, bot, l_op, settles,
          rl, rl_admitted, rl_result, gate, retry,
          orderbook, feed, msg, served, walk, delta, quote, classified, threads, momo>>

(***************************************************************************)
(* CircuitBreaker                                                          *)
(***************************************************************************)
CLOSED == "closed"
OPEN == "open"
HALF_OPEN == "half_open"

\* the dataclass defaults: the configured threshold and the internal fields
CircuitBreakerInit ==
    [failure_threshold |-> failure_threshold,
     _state |-> CLOSED, _failures |-> 0, _successes |-> 0,
     _last_failure_time |-> 0, _half_open_calls |-> 0]

\* mutant: entering HALF_OPEN forgets to reset the probe counter
transition_to_NoProbeReset(b, new_state) ==
    IF new_state = CLOSED
        THEN [b EXCEPT !._state = new_state, !._failures = 0, !._successes = 0]
        ELSE [b EXCEPT !._state = new_state]

\* _transition_to (state_changes, a statistics log, is not modelled)
transition_to(b, new_state) ==
    IF new_state = HALF_OPEN
        THEN [b EXCEPT !._state = new_state, !._half_open_calls = 0]
    ELSE IF new_state = CLOSED
        THEN [b EXCEPT !._state = new_state, !._failures = 0, !._successes = 0]
    ELSE [b EXCEPT !._state = new_state]

\* mutant: the recovery check fires one tick early
state_read_Early(b, t) ==
    IF b._state = OPEN /\ t - b._last_failure_time >= recovery_time - 1
        THEN transition_to(b, HALF_OPEN)
        ELSE b

\* the `state` property: the breaker after the read (its _state is the value returned)
state_read(b, t) ==
    IF b._state = OPEN /\ t - b._last_failure_time >= recovery_time
        THEN transition_to(b, HALF_OPEN)
        ELSE b

\* mutant: a half-open breaker admits every request
allow_request_Unlimited(b, t) ==
    LET b1 == state_read(b, t)
        current_state == b1._state
    IN  IF current_state = CLOSED THEN [b |-> b1, result |-> TRUE]
        ELSE IF current_state = OPEN THEN [b |-> b1, result |-> FALSE]
        ELSE [b |-> [b1 EXCEPT !._half_open_calls = @ + 1], result |-> TRUE]

\* allow_request: [b |-> breaker afterwards, result |-> returned value]
allow_request(b, t) ==
    LET b1 == state_read(b, t)
        current_state == b1._state
    IN  IF current_state = CLOSED THEN [b |-> b1, result |-> TRUE]
        ELSE IF current_state = OPEN THEN [b |-> b1, result |-> FALSE]
        ELSE IF b1._half_open_calls < half_open_max_calls
            THEN [b |-> [b1 EXCEPT !._half_open_calls = @ + 1], result |-> TRUE]
            ELSE [b |-> b1, result |-> FALSE]

\* record_success
record_success(b) ==
    LET b1 == [b EXCEPT !._successes = @ + 1]
    IN  IF b1._state = HALF_OPEN
            THEN IF b1._successes >= half_open_max_calls
                    THEN transition_to(b1, CLOSED)
                    ELSE b1
        ELSE IF b1._state = CLOSED
            THEN [b1 EXCEPT !._failures = IF @ - 1 > 0 THEN @ - 1 ELSE 0]
        ELSE b1

\* mutant: a failure while half-open does not reopen the circuit
record_failure_NoReopen(b, t) ==
    LET b1 == [b EXCEPT !._failures = @ + 1, !._last_failure_time = t]
    IN  IF b1._state = CLOSED /\ b1._failures >= b1.failure_threshold
            THEN transition_to(b1, OPEN)
            ELSE b1

\* record_failure
record_failure(b, t) ==
    LET b1 == [b EXCEPT !._failures = @ + 1, !._last_failure_time = t]
    IN  IF b1._state = HALF_OPEN
            THEN transition_to(b1, OPEN)
        ELSE IF b1._state = CLOSED
            THEN IF b1._failures >= b1.failure_threshold
                    THEN transition_to(b1, OPEN)
                    ELSE b1
        ELSE b1

\* reset
reset(b) ==
    [transition_to(b, CLOSED) EXCEPT !._failures = 0, !._successes = 0]

(***************************************************************************)
(* Trade and TradingState (src/src/core/trader.py)                         *)
(* Of a Trade only the fields that identify it, price it and settle it are *)
(* kept; the analytics fields (spread, slippage, session, timing, on-chain)*)
(* do not influence any method below.                                      *)
(***************************************************************************)
Directions == {"up", "down"}
Markets == 1..MaxMarket
\* A file is <<>> while os.path.exists(file) is false, else <<its content>>
NoFile == <<>>

\* Trade(...) as PaperTrader.place_bet builds it: pending, no outcome, pnl 0
Trade(timestamp, executed_at, direction, amount, execution_price, fee_pct) ==
    [timestamp |-> timestamp, executed_at |-> executed_at, direction |-> direction,
     amount |-> amount, execution_price |-> execution_price, fee_pct |-> fee_pct,
     settlement_status |-> "pending", outcome |-> "none", pnl |-> 0, net_profit |-> 0,
     force_exit_reason |-> "none"]

\* f"{t.timestamp}_{t.executed_at}_{t.direction}"
trade_id(t) == <<t.timestamp, t.executed_at, t.direction>>

\* Trade.to_nested_json: pnl itself is not written, net_profit is
to_nested_json(t) ==
    [id |-> trade_id(t),
     market |-> [timestamp |-> t.timestamp],
     position |-> [direction |-> t.direction, amount |-> t.amount],
     execution |-> [timestamp |-> t.executed_at, fill_price |-> t.execution_price],
     fees |-> [pct |-> t.fee_pct],
     settlement |-> [status |-> t.settlement_status, outcome |-> t.outcome,
                     net_profit |-> t.net_profit,
                     force_exit_reason |-> IF t.settlement_status = "force_exit"
                                              THEN t.force_exit_reason ELSE "none"]]

\* Trade.from_nested_json
from_nested_json(data) ==
    [timestamp |-> data.market.timestamp, executed_at |-> data.execution.timestamp,
     direction |-> data.position.direction, amount |-> data.position.amount,
     execution_price |-> data.execution.fill_price, fee_pct |-> data.fees.pct,
     settlement_status |-> data.settlement.status, outcome |-> data.settlement.outcome,
     pnl |-> data.settlement.net_profit, net_profit |-> data.settlement.net_profit,
     force_exit_reason |-> data.settlement.force_exit_reason]

\* TradingState(): the dataclass defaults
TradingStateInit ==
    [trades |-> <<>>, daily_bets |-> 0, daily_pnl |-> 0, last_reset_date |-> 0,
     bankroll |-> StartBankroll, _saved_trade_ids |-> {}]

\* reset_daily_if_needed
reset_daily_if_needed(L, day) ==
    IF L.last_reset_date # day
        THEN [L EXCEPT !.daily_bets = 0, !.daily_pnl = 0, !.last_reset_date = day]
        ELSE L

\* can_trade: [L |-> state afterwards, ok |-> verdict, reason |-> which limit]
can_trade(L, day) ==
    LET L1 == reset_daily_if_needed(L, day)
    IN  IF L1.daily_bets >= MAX_DAILY_BETS
            THEN [L |-> L1, ok |-> FALSE, reason |-> "Max daily bets reached"]
        ELSE IF L1.daily_pnl <= -MAX_DAILY_LOSS
            THEN [L |-> L1, ok |-> FALSE, reason |-> "Max daily loss reached"]
        ELSE IF L1.bankroll < MIN_BET
            THEN [L |-> L1, ok |-> FALSE, reason |-> "Bankroll too low"]
        ELSE [L |-> L1, ok |-> TRUE, reason |-> "OK"]

\* record_trade
record_trade(L, trade) ==
    [L EXCEPT !.trades = Append(@, trade), !.daily_bets = @ + 1]

\* the part of settle_trade that rewrites the trade
settled(t, outcome) ==
    LET won == t.direction = outcome
        exec_price == t.execution_price
        shares_bought == IF exec_price > 0 THEN (t.amount * 100) \div exec_price ELSE 0
        gross_profit == IF won THEN shares_bought - t.amount ELSE -t.amount
        fee_pct == IF t.fee_pct > 0 THEN t.fee_pct ELSE 0
        fee_amount == IF won /\ gross_profit > 0 THEN (gross_profit * fee_pct) \div 100 ELSE 0
        net_profit == IF won THEN gross_profit - fee_amount ELSE -t.amount
    IN  [t EXCEPT !.outcome = outcome, !.settlement_status = "settled",
                  !.net_profit = net_profit, !.pnl = net_profit]

\* settle_trade on the i-th trade of the list
settle_trade(L, i, outcome) ==
    LET t == settled(L.trades[i], outcome)
    IN  [L EXCEPT !.trades[i] = t, !.daily_pnl = @ + t.pnl, !.bankroll = @ + t.pnl]

\* a mutant of mark_pending_as_force_exit: the trade's status is not tested
mark_pending_as_force_exit_Untested(L, reason) ==
    [L EXCEPT !.trades =
        [i \in DOMAIN @ |-> [@[i] EXCEPT !.settlement_status = "force_exit",
                                         !.force_exit_reason = reason]]]

\* mark_pending_as_force_exit
mark_pending_as_force_exit(L, reason) ==
    [L EXCEPT !.trades =
        [i \in DOMAIN @ |->
            IF @[i].settlement_status = "pending" /\ @[i].outcome = "none"
                THEN [@[i] EXCEPT !.settlement_status = "force_exit",
                                  !.force_exit_reason = reason]
                ELSE @[i]]]

\* seq[-n:]
LastN(seq, n) ==
    IF Len(seq) <= n THEN seq ELSE SubSeq(seq, Len(seq) - n + 1, Len(seq))

\* the dict save() dumps into Config.TRADES_FILE
working_state(L) ==
    [trades |-> [i \in DOMAIN LastN(L.trades, WORKING_KEEP) |->
                    to_nested_json(LastN(L.trades, WORKING_KEEP)[i])],
     daily_bets |-> L.daily_bets, daily_pnl |-> L.daily_pnl,
     last_reset_date |-> L.last_reset_date, bankroll |-> L.bankroll]

\* the loop of _append_to_full_history that collects new_trades, from index k on
RECURSIVE new_trades(_, _, _)
new_trades(trades, saved, k) ==
    IF k > Len(trades) THEN <<>>
    ELSE IF trade_id(trades[k]) \in saved THEN new_trades(trades, saved, k + 1)
    ELSE <<trades[k]>> \o new_trades(trades, saved \cup {trade_id(trades[k])}, k + 1)

\* what _append_to_full_history wants the history file to hold
appended_history(L, history) ==
    LET new == new_trades(L.trades, L._saved_trade_ids, 1)
        existing == IF history = NoFile THEN <<>> ELSE history[1]
    IN  IF new = <<>> THEN history
        ELSE <<existing \o [i \in DOMAIN new |-> to_nested_json(new[i])]>>

\* _append_to_full_history marks every trade as saved before it writes the file
marked_saved(L) ==
    [L EXCEPT !._saved_trade_ids = @ \cup {trade_id(L.trades[i]) : i \in DOMAIN L.trades}]

\* settled_trades.get(id) in _update_settled_trades_in_history, <<>> for a miss:
\* the dict comprehension keeps the last settled / force_exit trade with that id
settled_trades(L, id) ==
    LET idx == {i \in DOMAIN L.trades :
                    /\ trade_id(L.trades[i]) = id
                    /\ L.trades[i].settlement_status \in {"settled", "force_exit"}}
    IN  IF idx = {} THEN <<>>
        ELSE <<L.trades[CHOOSE i \in idx : \A j \in idx : j <= i]>>

\* what _update_settled_trades_in_history wants the history file to hold
updated_history(L, history) ==
    IF history = NoFile THEN history
    ELSE <<[i \in DOMAIN history[1] |->
            LET entry == history[1][i]
                st == settled_trades(L, entry.id)
            IN  IF st # <<>> /\ entry.settlement.status = "pending"
                    THEN [entry EXCEPT !.settlement = to_nested_json(st[1]).settlement]
                    ELSE entry]>>

\* save(): [L, F afterwards, ok |-> FALSE when an exception left it].
\* fault names the write that raises: "none", "working" (trades.json cannot be
\* opened), "history" (the appended history cannot be written) or "update"
\* (the patched history cannot be written).
save(L, F, fault) ==
    IF fault = "working" THEN [L |-> L, F |-> F, ok |-> FALSE]
    ELSE
      LET F1 == [F EXCEPT !.working = <<working_state(L)>>]
          L1 == marked_saved(L)
          h1 == appended_history(L, F.history)
      IN  IF fault = "history" /\ h1 # F.history
              THEN [L |-> L1, F |-> F1, ok |-> FALSE]
          ELSE
            LET h2 == updated_history(L1, h1)
            IN  IF fault = "update" /\ h2 # h1
                    THEN [L |-> L1, F |-> [F1 EXCEPT !.history = h1], ok |-> FALSE]
                    ELSE [L |-> L1, F |-> [F1 EXCEPT !.history = h2], ok |-> TRUE]

\* TradingState.load()
load(F) ==
    LET s0 == TradingStateInit
        s1 == IF F.working = NoFile THEN s0
              ELSE [s0 EXCEPT
                      !.trades = [i \in DOMAIN F.working[1].trades |->
                                    from_nested_json(F.working[1].trades[i])],
                      !.daily_bets = F.working[1].daily_bets,
                      !.daily_pnl = F.working[1].daily_pnl,
                      !.last_reset_date = F.working[1].last_reset_date,
                      !.bankroll = F.working[1].bankroll]
    IN  IF F.history = NoFile THEN s1
        ELSE [s1 EXCEPT !._saved_trade_ids =
                            {F.history[1][i].id : i \in DOMAIN F.history[1]}]

\* the control loop's local variables when main() starts, for one of the bots
BotLocals(variant) ==
    [variant |-> variant, running |-> TRUE, bankrupt |-> FALSE,
     pending |-> <<>>, todo |-> <<>>, nsig |-> 0, bet_timestamps |-> {}]

\* [t for t in state.trades if t.outcome is None], as indexes into state.trades
unsettled(L) ==
    SelectSeq([i \in DOMAIN L.trades |-> i], LAMBDA i : L.trades[i].outcome = "none")

\* pending.sort(key=lambda t: t.timestamp), a stable sort
RECURSIVE sorted_by_timestamp(_, _)
sorted_by_timestamp(L, seq) ==
    IF seq = <<>> THEN <<>>
    ELSE LET h == Head(seq)
             rest == sorted_by_timestamp(L, Tail(seq))
         IN  SelectSeq(rest, LAMBDA i : L.trades[i].timestamp < L.trades[h].timestamp)
             \o <<h>> \o
             SelectSeq(rest, LAMBDA i : L.trades[i].timestamp >= L.trades[h].timestamp)

\* pending.remove(trade)
removed(seq, i) == SelectSeq(seq, LAMBDA j : j # i)

\* history record of a TradingState call
Op(name, i) == [name |-> name, i |-> i]

(***************************************************************************)
(* RateLimiter (src/src/infra/resilience.py)                               *)
(***************************************************************************)
\* RateLimiter(): the empty deque
RateLimiterInit == <<>>

\* popleft() also of a request made exactly window_size ago
RECURSIVE popleft_expired_Boundary(_, _)
popleft_expired_Boundary(requests, window_start) ==
    IF requests # <<>> /\ Head(requests) <= window_start
        THEN popleft_expired_Boundary(Tail(requests), window_start)
        ELSE requests

\* while self._requests and self._requests[0] < window_start: popleft()
RECURSIVE popleft_expired(_, _)
popleft_expired(requests, window_start) ==
    IF requests # <<>> /\ Head(requests) < window_start
        THEN popleft_expired(Tail(requests), window_start)
        ELSE requests

\* RateLimiter.allow_request at time t: [requests afterwards, result]
RateLimiter_allow_request(requests, t) ==
    LET kept == popleft_expired(requests, t - window_size)
    IN  IF Len(kept) < requests_per_minute
            THEN [requests |-> Append(kept, t), result |-> TRUE]
            ELSE [requests |-> kept, result |-> FALSE]

\* RateLimiter.time_until_allowed at time t
time_until_allowed(requests, t) ==
    IF Len(requests) < requests_per_minute THEN 0
    ELSE IF requests = <<>> THEN 0
    ELSE IF Head(requests) + window_size - t > 0
        THEN Head(requests) + window_size - t
        ELSE 0

(***************************************************************************)
(* categorize_error and with_retry                                         *)
(***************************************************************************)
\* with_retry's defaults
max_retries == 3

base_delay == 1

max_delay == 30

\* the least delay after a rate-limited failure
rate_limited_delay == 5

\* An exception is modelled by what categorize_error looks at: whether it is
\* a CircuitOpenError, and which of the tested substrings its lower-cased
\* message contains.
Substrings ==
    {"429", "rate limit", "too many requests", "500", "502", "503", "504",
     "timeout", "timed out", "connection", "refused", "reset", "error",
     "400", "401", "403", "404", "422", "invalid", "validation",
     "insufficient", "balance"}

CircuitOpenError == "CircuitOpenError"

RETRYABLE == "retryable"
FATAL == "fatal"
RATE_LIMITED == "rate_limited"
CIRCUIT_OPEN == "circuit_open"

\* categorize_error(error): the tests in the order of the code
categorize_error(e) ==
    IF CircuitOpenError \in e THEN CIRCUIT_OPEN
    ELSE IF e \cap {"429", "rate limit", "too many requests"} # {} THEN RATE_LIMITED
    ELSE IF e \cap {"500", "502", "503", "504"} # {} THEN RETRYABLE
    ELSE IF e \cap {"timeout", "timed out"} # {} THEN RETRYABLE
    ELSE IF "connection" \in e /\ e \cap {"refused", "reset", "error"} # {} THEN RETRYABLE
    ELSE IF e \cap {"400", "401", "403", "404", "422"} # {} THEN FATAL
    ELSE IF e \cap {"invalid", "validation"} # {} THEN FATAL
    ELSE IF e \cap {"insufficient", "balance"} # {} THEN FATAL
    ELSE RETRYABLE

RECURSIVE Pow2(_)
Pow2(n) == IF n = 0 THEN 1 ELSE 2 * Pow2(n - 1)

Min(a, b) == IF a < b THEN a ELSE b

Max(a, b) == IF a > b THEN a ELSE b

\* the delay with_retry sleeps after a failed attempt that is retried
backoff_delay(attempt, category) ==
    LET delay == Min(base_delay * Pow2(attempt), max_delay)
    IN  IF category = RATE_LIMITED THEN Max(delay, rate_limited_delay) ELSE delay

\* no with_retry call is running.  circuit_breaker and rate_limiter tell
\* whether the call was given one, pc is the place in the call, attempt the
\* loop variable, invoked the number of times fn was invoked by the call
\* (history), last_error the exception of the last failed attempt (<<>> when
\* none), outcome how the call ended, delay the last computed delay, calls
\* the number of with_retry calls made so far.
RetryLocals ==
    [circuit_breaker |-> FALSE, rate_limiter |-> FALSE,
     pc |-> "idle", attempt |-> 0, invoked |-> 0, last_error |-> <<>>,
     outcome |-> "none", delay |-> 0, calls |-> 0]

\* with_retry going on to fn() whatever allow_request returned
with_retry_check_circuit_Unchecked(r, admitted) ==
    [r EXCEPT !.pc = "call"]

\* with_retry after circuit_breaker.allow_request() returned admitted:
\* raise CircuitOpenError, or go on to fn()
with_retry_check_circuit(r, admitted) ==
    IF ~admitted
        THEN [r EXCEPT !.pc = "idle", !.outcome = "CircuitOpenError"]
        ELSE [r EXCEPT !.pc = "call"]

\* with_retry after fn() returned
with_retry_on_result(r) ==
    [r EXCEPT !.pc = "idle", !.outcome = "returned", !.invoked = @ + 1]

\* with_retry's except branch after fn() raised e
with_retry_on_error(r, e) ==
    LET category == categorize_error(e)
        r1 == [r EXCEPT !.invoked = @ + 1, !.last_error = <<e>>]
    IN  IF category = FATAL \/ r.attempt >= max_retries
            THEN [r1 EXCEPT !.pc = "idle", !.outcome = "raised"]
            ELSE [r1 EXCEPT !.pc = "sleep",
                            !.delay = backoff_delay(r.attempt, category)]

(***************************************************************************)
(* CachedOrderBook and PolymarketWebSocket                                 *)
(* Prices are in units of 0.25 and mid2 holds twice the mid, so that the   *)
(* default mid of 0.5 is mid2 = 4.                                         *)
(***************************************************************************)
\* the prices and sizes the feed sends (size 0 asks for a removal)
LevelPrices == {1, 2}

LevelSizes == {0, 1}

\* a snapshot carries at most this many levels a side
MaxLevels == 2

OrderBookLevel(price, size) == [price |-> price, size |-> size]

\* CachedOrderBook(token_id=...)
CachedOrderBook ==
    [bids |-> <<>>, asks |-> <<>>, timestamp |-> 0,
     best_bid |-> 0, best_ask |-> 0, mid2 |-> 4]

\* x goes behind every level that does not sort after it (list.sort is stable)
RECURSIVE sort_insert(_, _, _)
sort_insert(sorted, x, reverse) ==
    IF sorted = <<>> THEN <<x>>
    ELSE LET last == sorted[Len(sorted)]
         IN  IF (IF reverse THEN last.price >= x.price ELSE last.price <= x.price)
                 THEN Append(sorted, x)
                 ELSE Append(sort_insert(SubSeq(sorted, 1, Len(sorted) - 1), x, reverse),
                             last)

\* levels.sort(key=lambda x: x.price, reverse=reverse)
RECURSIVE sort_by_price(_, _)
sort_by_price(levels, reverse) ==
    IF levels = <<>> THEN <<>>
    ELSE sort_insert(sort_by_price(SubSeq(levels, 1, Len(levels) - 1), reverse),
                     levels[Len(levels)], reverse)

\* levels.pop(i)
pop(levels, i) ==
    SubSeq(levels, 1, i - 1) \o SubSeq(levels, i + 1, Len(levels))

\* CachedOrderBook._update_level: the first level at the price is removed or
\* resized; without one, a level of positive size is appended and the ladder
\* sorted
update_level(levels, price, size, reverse) ==
    LET hits == {i \in DOMAIN levels : levels[i].price = price}
    IN  IF hits # {}
            THEN LET i == CHOOSE h \in hits : \A g \in hits : h <= g
                 IN  IF size = 0 THEN pop(levels, i)
                                 ELSE [levels EXCEPT ![i].size = size]
        ELSE IF size > 0
            THEN sort_by_price(Append(levels, OrderBookLevel(price, size)), reverse)
        ELSE levels

\* CachedOrderBook._recalculate at time t
recalculate(b, t) ==
    LET bids == IF b.bids # <<>> THEN sort_by_price(b.bids, TRUE) ELSE b.bids
        asks == IF b.asks # <<>> THEN sort_by_price(b.asks, FALSE) ELSE b.asks
        best_bid == IF bids # <<>> THEN bids[1].price ELSE b.best_bid
        best_ask == IF asks # <<>> THEN asks[1].price ELSE b.best_ask
    IN  [bids |-> bids, asks |-> asks, timestamp |-> t,
         best_bid |-> best_bid, best_ask |-> best_ask,
         mid2 |-> IF best_bid > 0 /\ best_ask > 0 THEN best_bid + best_ask
                                                  ELSE b.mid2]

\* CachedOrderBook.update_from_snapshot at time t
update_from_snapshot(b, data, t) ==
    recalculate([b EXCEPT !.bids = data.bids, !.asks = data.asks], t)

\* the for loop of update_from_delta: a change whose price or size is not a
\* number makes float() raise, with the changes before it already applied
RECURSIVE apply_changes(_, _)
apply_changes(b, changes) ==
    IF changes = <<>> THEN [book |-> b, raised |-> FALSE]
    ELSE LET change == Head(changes)
         IN  IF change.malformed THEN [book |-> b, raised |-> TRUE]
             ELSE IF change.side = "BUY"
                 THEN apply_changes(
                         [b EXCEPT !.bids = update_level(@, change.price, change.size, TRUE)],
                         Tail(changes))
             ELSE IF change.side = "SELL"
                 THEN apply_changes(
                         [b EXCEPT !.asks = update_level(@, change.price, change.size, FALSE)],
                         Tail(changes))
             ELSE apply_changes(b, Tail(changes))

\* CachedOrderBook.update_from_delta at time t: [book afterwards, raised]
update_from_delta(b, changes, t) ==
    LET applied == apply_changes(b, changes)
    IN  IF applied.raised THEN applied
        ELSE [book |-> recalculate(applied.book, t), raised |-> FALSE]

\* PolymarketWebSocket after start(), before the first connection: connected
\* is the _connected event, ws_open whether the connection is alive,
\* subscribed whether the market is in _subscribed_markets, sent whether a
\* subscribe message for it went out on this connection, retry_at the end of
\* the reconnect sleep; had_snapshot and snapshot_since_connect are history
FeedLocals ==
    [connected |-> FALSE, ws_open |-> FALSE, subscribed |-> FALSE,
     sent |-> FALSE, reconnect_count |-> 0, retry_at |-> 0,
     had_snapshot |-> FALSE, snapshot_since_connect |-> FALSE]

\* no message handled yet; n counts the messages handled
NoMessage == [type |-> "none", raised |-> FALSE, n |-> 0]

\* no read served yet
NoRead == [call |-> "none", source |-> "none", age |-> 0]

\* no reader is walking the book.  In a walk, i is the index of the for
\* loop, seen the levels it has read, detached whether the list it holds is
\* no longer the book's (levels is then what that list holds); versions, the
\* asks the book has had since the walk began, is history
WalkLocals ==
    [pc |-> "idle", i |-> 0, seen |-> <<>>, detached |-> FALSE,
     levels |-> <<>>, versions |-> {}]

\* no execution-pricing call and no categorize_error call made yet
NoQuote == [path |-> "none"]

NoCategory == [category |-> "none"]

\* no thread is inside a breaker call
NoThreads == <<>>

\* no strategy evaluated
NoMomo == [bars |-> 0]

CalcIdle ==
    /\ quote = NoQuote
    /\ classified = NoCategory
    /\ threads = NoThreads
    /\ momo = NoMomo

\* no one-change price_change message handled yet
NoDelta == [n |-> 0, change |-> <<>>, before |-> <<>>]

\* the feed and its readers while another component is exercised
FeedIdle ==
    /\ orderbook = <<>>
    /\ feed = FeedLocals
    /\ msg = NoMessage
    /\ served = NoRead
    /\ walk = WalkLocals
    /\ delta = NoDelta

\* copybot_v2's loop before its first iteration, seen as a client of the
\* breaker and the limiter: pc is its place in the iteration, last the outcome
\* of its last upstream request, fetch_failures the failed market fetches
\* since the last one that succeeded (history)
GateLocals ==
    [pc |-> "settle", last |-> "none", fetch_failures |-> 0]

\* the limiter and the loop's requests while another component is exercised
GateIdle ==
    /\ rl = RateLimiterInit
    /\ rl_admitted = <<>>
    /\ rl_result = TRUE
    /\ gate = GateLocals
    /\ retry = RetryLocals
    /\ FeedIdle
    /\ CalcIdle

\* the ledger side while only the breaker is exercised
LedgerIdle ==
    /\ today = 1
    /\ markets = [m \in Markets |-> "none"]
    /\ placed = 0
    /\ files = [working |-> NoFile, history |-> NoFile]
    /\ ledger = TradingStateInit
    /\ pc = "idle"
    /\ bot = BotLocals("none")
    /\ l_op = Op("init", 0)
    /\ settles = 0

(***************************************************************************)
(* SpecBreaker: the breaker's methods called by one thread, and the clock  *)
(***************************************************************************)
BreakerInit ==
    /\ now = 0
    /\ cb = CircuitBreakerInit
    /\ cb_op = "init"
    /\ cb_from = CLOSED
    /\ cb_result = TRUE
    /\ consec_failures = 0
    /\ ho_successes = 0
    /\ LedgerIdle
    /\ GateIdle

\* time passes; nothing runs in the background
Tick ==
    /\ now < MaxTime
    /\ now' = now + 1
    /\ cb_op' = "tick"
    /\ cb_from' = cb._state
    /\ UNCHANGED <<cb, cb_result, consec_failures, ho_successes>>
    /\ UNCHANGED nonBreakerVars

\* a caller reads breaker.state
StateRead ==
    /\ cb' = state_read(cb, now)
    /\ cb_op' = "state"
    /\ cb_from' = cb._state
    /\ ho_successes' = IF cb'._state = HALF_OPEN /\ cb._state # HALF_OPEN THEN 0 ELSE ho_successes
    /\ UNCHANGED <<now, cb_result, consec_failures>>
    /\ UNCHANGED nonBreakerVars

\* a caller calls breaker.allow_request()
AllowRequest ==
    /\ cb' = allow_request(cb, now).b
    /\ cb_result' = allow_request(cb, now).result
    /\ cb_op' = "allow_request"
    /\ cb_from' = cb._state
    /\ ho_successes' = IF cb'._state = HALF_OPEN /\ cb._state # HALF_OPEN THEN 0 ELSE ho_successes
    /\ UNCHANGED <<now, consec_failures>>
    /\ UNCHANGED nonBreakerVars

\* a caller calls breaker.record_success()
RecordSuccess ==
    /\ cb._successes < MaxCount
    /\ cb' = record_success(cb)
    /\ cb_op' = "record_success"
    /\ cb_from' = cb._state
    /\ consec_failures' = 0
    /\ ho_successes' = IF cb._state = HALF_OPEN THEN ho_successes + 1 ELSE ho_successes
    /\ UNCHANGED <<now, cb_result>>
    /\ UNCHANGED nonBreakerVars

\* a caller calls breaker.record_failure()
RecordFailure ==
    /\ cb._failures < MaxCount
    /\ cb' = record_failure(cb, now)
    /\ cb_op' = "record_failure"
    /\ cb_from' = cb._state
    /\ consec_failures' = consec_failures + 1
    /\ ho_successes' = 0
    /\ UNCHANGED <<now, cb_result>>
    /\ UNCHANGED nonBreakerVars

\* a caller calls breaker.reset()
Reset ==
    /\ cb' = reset(cb)
    /\ cb_op' = "reset"
    /\ cb_from' = cb._state
    /\ consec_failures' = 0
    /\ ho_successes' = 0
    /\ UNCHANGED <<now, cb_result>>
    /\ UNCHANGED nonBreakerVars

BreakerNext ==
    \/ Tick
    \/ StateRead
    \/ AllowRequest
    \/ RecordSuccess
    \/ RecordFailure
    \/ Reset

SpecBreaker == BreakerInit /\ [][BreakerNext]_vars

(***************************************************************************)
(* The environment of the ledger: the calendar, the venue, the order fill  *)
(***************************************************************************)
\* prices (percent) and fee rates (percent) an order can be filled at
Prices == {50}
FeePcts == {10}
\* the faults a save() can meet
Faults == {"none", "working", "history", "update"}

\* UTC midnight passes
NewDay ==
    /\ today < MaxDay
    /\ today' = today + 1
    /\ UNCHANGED <<markets, placed, files, ledger, pc, bot, l_op, settles>>
    /\ UNCHANGED nonLedgerVars

\* a market closes and resolves to an outcome
Resolve ==
    /\ \E m \in Markets, o \in Directions :
        /\ markets[m] = "none"
        /\ markets' = [markets EXCEPT ![m] = o]
    /\ UNCHANGED <<today, placed, files, ledger, pc, bot, l_op, settles>>
    /\ UNCHANGED nonLedgerVars

\* the side the strategy bets on; the outcome is drawn from both directions,
\* so a bet on "up" both wins and loses
BetDirections == {"up"}

\* the trades place_bet can return for an amount: executed_at is the
\* millisecond clock, which has moved on since the previous order
PlacedTrades(amount) ==
    {Trade(ts, placed + 1, d, amount, p, f) :
        ts \in {m \in Markets : markets[m] = "none"}, d \in BetDirections,
        p \in Prices, f \in FeePcts}

(***************************************************************************)
(* SpecLedger: the in-memory TradingState methods called in any order      *)
(* SpecPersist: the methods with save(), by a process that can be killed   *)
(* and started again (a new process calls TradingState.load())             *)
(***************************************************************************)
LedgerInit ==
    /\ now = 0
    /\ cb = CircuitBreakerInit
    /\ cb_op = "init"
    /\ cb_from = CLOSED
    /\ cb_result = TRUE
    /\ consec_failures = 0
    /\ ho_successes = 0
    /\ today = 1
    /\ markets = [m \in Markets |-> "none"]
    /\ placed = 0
    /\ files = [working |-> NoFile, history |-> NoFile]
    /\ ledger = TradingStateInit
    /\ pc = "up"
    /\ bot = BotLocals("none")
    /\ l_op = Op("init", 0)
    /\ settles = 0
    /\ GateIdle

LCanTrade ==
    /\ pc = "up"
    /\ ledger' = can_trade(ledger, today).L
    /\ l_op' = Op(IF can_trade(ledger, today).ok THEN "can_trade_ok" ELSE "can_trade_no", 0)
    /\ UNCHANGED <<today, markets, placed, files, pc, bot, settles>>
    /\ UNCHANGED nonLedgerVars

LRecordTrade ==
    /\ pc = "up"
    /\ placed < MaxTrades
    /\ \E t \in PlacedTrades(BET_AMOUNT) : ledger' = record_trade(ledger, t)
    /\ placed' = placed + 1
    /\ l_op' = Op("record_trade", Len(ledger.trades) + 1)
    /\ UNCHANGED <<today, markets, files, pc, bot, settles>>
    /\ UNCHANGED nonLedgerVars

LSettleTrade ==
    /\ pc = "up"
    /\ settles < MaxSettles
    /\ \E i \in DOMAIN ledger.trades, o \in Directions :
        /\ ledger' = settle_trade(ledger, i, o)
        /\ l_op' = Op("settle_trade", i)
    /\ settles' = settles + 1
    /\ UNCHANGED <<today, markets, placed, files, pc, bot>>
    /\ UNCHANGED nonLedgerVars

LMarkPendingForceExit ==
    /\ pc = "up"
    /\ \E reason \in {"shutdown", "insufficient_bankroll"} :
        ledger' = mark_pending_as_force_exit(ledger, reason)
    /\ l_op' = Op("mark_pending_as_force_exit", 0)
    /\ UNCHANGED <<today, markets, placed, files, pc, bot, settles>>
    /\ UNCHANGED nonLedgerVars

LSave ==
    /\ pc = "up"
    /\ \E fault \in Faults :
        /\ ledger' = save(ledger, files, fault).L
        /\ files' = save(ledger, files, fault).F
        /\ l_op' = Op(IF save(ledger, files, fault).ok THEN "save_ok" ELSE "save_failed", 0)
    /\ UNCHANGED <<today, markets, placed, pc, bot, settles>>
    /\ UNCHANGED nonLedgerVars

\* the process is killed, its memory is gone, and a new process calls
\* TradingState.load()
LRestart ==
    /\ pc = "up"
    /\ ledger' = load(files)
    /\ l_op' = Op("load", 0)
    /\ UNCHANGED <<today, markets, placed, files, pc, bot, settles>>
    /\ UNCHANGED nonLedgerVars

LedgerNext ==
    \/ NewDay
    \/ LCanTrade
    \/ LRecordTrade
    \/ LSettleTrade
    \/ LMarkPendingForceExit

SpecLedger == LedgerInit /\ [][LedgerNext]_vars

PersistNext ==
    \/ LRecordTrade
    \/ LSettleTrade
    \/ LMarkPendingForceExit
    \/ LSave
    \/ LRestart

SpecPersist == LedgerInit /\ [][PersistNext]_vars

(***************************************************************************)
(* SpecBot: the control loop of copybot_v2.py, of bot.py or of             *)
(* scripts/streak_bot.py, one process at a time on the ledger's files.     *)
(* pc is the place of the process in main(): "down" (no process), "loop"   *)
(* (the while test), "settle" (the settle loop), "settle_save",            *)
(* "can_trade", "sleep_midnight", "signals", "trade_save", "cleanup",      *)
(* "final_save", "exited".  The venue's answers (market resolved or not,   *)
(* a request failing, the breaker or the rate limiter refusing a call) are *)
(* drawn from every value the loop distinguishes.                          *)
(***************************************************************************)
\* the faults a save() of the control loop meets: it completes, or it raises
\* before trades.json is opened (SpecPersist has the saves that stop half way)
BotFaults == {"none", "working"}

Variants == {"copybot_v2", "bot", "streak_bot"}

BotInit ==
    /\ now = 0
    /\ cb = CircuitBreakerInit
    /\ cb_op = "init"
    /\ cb_from = CLOSED
    /\ cb_result = TRUE
    /\ consec_failures = 0
    /\ ho_successes = 0
    /\ today = 1
    /\ markets = [m \in Markets |-> "none"]
    /\ placed = 0
    /\ files = [working |-> NoFile, history |-> NoFile]
    /\ ledger = TradingStateInit
    /\ pc = "down"
    /\ \E v \in Variants : bot = BotLocals(v)
    /\ l_op = Op("init", 0)
    /\ settles = 0
    /\ GateIdle

\* main() up to the while loop: TradingState.load(), --bankroll (0: not given),
\* the pending list (copybot_v2 resumes the unsettled trades of the file) and
\* bet_timestamps (bot.py, streak_bot.py: the markets of the loaded trades)
BotBoot ==
    /\ pc \in {"down", "exited"}
    /\ \E bankroll \in {0, StartBankroll} :
        LET L == load(files)
        IN  /\ ledger' = IF bankroll # 0 THEN [L EXCEPT !.bankroll = bankroll] ELSE L
            /\ bot' = [BotLocals(bot.variant) EXCEPT
                         !.pending = IF bot.variant = "copybot_v2"
                                        THEN unsettled(L) ELSE <<>>,
                         !.bet_timestamps =
                             IF bot.variant = "copybot_v2" THEN {}
                             ELSE {L.trades[i].timestamp : i \in DOMAIN L.trades}]
    /\ pc' = "loop"
    /\ l_op' = Op("load", 0)
    /\ UNCHANGED <<today, markets, placed, files, settles>>
    /\ UNCHANGED nonLedgerVars

\* while running [and not bankrupt]: the top of an iteration
BotLoopHead ==
    /\ pc = "loop"
    /\ IF ~bot.running \/ bot.bankrupt
          THEN /\ pc' = "cleanup"
               /\ bot' = bot
          ELSE /\ pc' = "settle"
               /\ LET p == IF bot.variant = "copybot_v2"
                              THEN sorted_by_timestamp(ledger, bot.pending)
                              ELSE bot.pending
                  IN  bot' = [bot EXCEPT !.pending = p, !.todo = p, !.nsig = 0]
    /\ l_op' = Op("loop", 0)
    /\ UNCHANGED <<today, markets, placed, files, ledger, settles>>
    /\ UNCHANGED nonLedgerVars

\* for trade in list(pending): the trade is left for a later iteration (its
\* market is not resolved; in copybot_v2 also: the rate limiter refuses, or
\* get_market raises and the inner except takes it)
BotSettleSkip ==
    /\ pc = "settle"
    /\ bot.todo # <<>>
    /\ \/ markets[ledger.trades[Head(bot.todo)].timestamp] = "none"
       \/ bot.variant = "copybot_v2"
    /\ bot' = [bot EXCEPT !.todo = Tail(@)]
    /\ l_op' = Op("settle_skip", Head(bot.todo))
    /\ UNCHANGED <<today, markets, placed, files, ledger, pc, settles>>
    /\ UNCHANGED nonLedgerVars

\* the settle loop ends: list(pending) is exhausted, or copybot_v2 breaks out
\* of it because the breaker refuses the call
BotSettleDone ==
    /\ pc = "settle"
    /\ bot.todo = <<>> \/ bot.variant = "copybot_v2"
    /\ bot' = [bot EXCEPT !.todo = <<>>]
    /\ pc' = "can_trade"
    /\ l_op' = Op("settle_done", 0)
    /\ UNCHANGED <<today, markets, placed, files, ledger, settles>>
    /\ UNCHANGED nonLedgerVars

\* bot.py, streak_bot.py: get_market raises, the loop's except sleeps
BotSettleError ==
    /\ pc = "settle"
    /\ bot.todo # <<>>
    /\ bot.variant # "copybot_v2"
    /\ bot' = [bot EXCEPT !.todo = <<>>]
    /\ pc' = "loop"
    /\ l_op' = Op("settle_error", Head(bot.todo))
    /\ UNCHANGED <<today, markets, placed, files, ledger, settles>>
    /\ UNCHANGED nonLedgerVars

\* the market is closed with an outcome: settle_trade, pending.remove
BotSettle ==
    /\ pc = "settle"
    /\ bot.todo # <<>>
    /\ LET i == Head(bot.todo)
           o == markets[ledger.trades[i].timestamp]
       IN  /\ o # "none"
           /\ ledger' = settle_trade(ledger, i, o)
           /\ bot' = [bot EXCEPT !.todo = Tail(@), !.pending = removed(@, i)]
           /\ l_op' = Op("settle_trade", i)
    /\ pc' = "settle_save"
    /\ UNCHANGED <<today, markets, placed, files, settles>>
    /\ UNCHANGED nonLedgerVars

\* state.save() after a settlement, and copybot_v2's bankruptcy check.  A save
\* that raises is taken by the inner except in copybot_v2 (the for loop goes
\* on) and by the loop's except in the other two
BotSettleSave ==
    /\ pc = "settle_save"
    /\ \E fault \in BotFaults :
        LET r == save(ledger, files, fault)
        IN  /\ ledger' = r.L
            /\ files' = r.F
            /\ l_op' = Op(IF r.ok THEN "save_ok" ELSE "save_failed", 0)
            /\ IF bot.variant = "copybot_v2"
                  THEN IF r.ok /\ ledger.bankroll < MIN_BET
                          THEN /\ bot' = [bot EXCEPT !.bankrupt = TRUE, !.todo = <<>>]
                               /\ pc' = "cleanup"
                          ELSE /\ bot' = bot
                               /\ pc' = "settle"
                  ELSE IF r.ok
                          THEN /\ bot' = bot
                               /\ pc' = "settle"
                          ELSE /\ bot' = [bot EXCEPT !.todo = <<>>]
                               /\ pc' = "loop"
    /\ UNCHANGED <<today, markets, placed, settles>>
    /\ UNCHANGED nonLedgerVars

\* state.can_trade() and what each loop does with a refusal
BotCanTrade ==
    /\ pc = "can_trade"
    /\ LET r == can_trade(ledger, today)
       IN  /\ ledger' = r.L
           /\ l_op' = Op(IF r.ok THEN "can_trade_ok" ELSE "can_trade_no", 0)
           /\ IF r.ok
                 THEN pc' = "signals" /\ bot' = bot
              ELSE IF bot.variant # "copybot_v2"
                 THEN pc' = "loop" /\ bot' = bot
              ELSE IF r.reason = "Bankroll too low"
                 THEN pc' = "cleanup" /\ bot' = [bot EXCEPT !.bankrupt = TRUE]
              ELSE IF r.reason = "Max daily loss reached"
                 THEN pc' = "cleanup" /\ bot' = bot
              ELSE pc' = "sleep_midnight" /\ bot' = bot
    /\ UNCHANGED <<today, markets, placed, files, settles>>
    /\ UNCHANGED nonLedgerVars

\* copybot_v2 sleeps until midnight of LOCAL_TZ, then zeroes the daily counters;
\* the UTC date has changed by then, or has not
BotMidnight ==
    /\ pc = "sleep_midnight"
    /\ \E d \in {today, today + 1} :
        /\ d <= MaxDay
        /\ today' = d
    /\ ledger' = [ledger EXCEPT !.daily_bets = 0, !.daily_pnl = 0]
    /\ pc' = "loop"
    /\ l_op' = Op("midnight", 0)
    /\ UNCHANGED <<markets, placed, files, bot, settles>>
    /\ UNCHANGED nonLedgerVars

\* a signal is taken: place_bet returns a trade, record_trade, pending.append.
\* copybot_v2 takes every signal of the poll in turn; bot.py and streak_bot.py
\* bet once per iteration and once per market (bet_timestamps)
BotSignal ==
    /\ pc = "signals"
    /\ placed < MaxTrades
    /\ bot.variant = "copybot_v2" => bot.nsig < MaxSignals
    /\ IF bot.variant = "copybot_v2" /\ ledger.bankroll < MIN_BET
          THEN /\ bot' = [bot EXCEPT !.bankrupt = TRUE]
               /\ pc' = "cleanup"
               /\ l_op' = Op("signal_bankrupt", 0)
               /\ UNCHANGED <<ledger, placed>>
          ELSE /\ \E t \in PlacedTrades(BET_AMOUNT) :
                    /\ bot.variant # "copybot_v2" => t.timestamp \notin bot.bet_timestamps
                    /\ ledger' = record_trade(ledger, t)
                    /\ bot' = [bot EXCEPT !.pending = Append(@, Len(ledger.trades) + 1),
                                          !.nsig = @ + 1,
                                          !.bet_timestamps =
                                              IF bot.variant = "copybot_v2" THEN @
                                              ELSE @ \cup {t.timestamp}]
               /\ placed' = placed + 1
               /\ pc' = "trade_save"
               /\ l_op' = Op("record_trade", Len(ledger.trades) + 1)
    /\ UNCHANGED <<today, markets, files, settles>>
    /\ UNCHANGED nonLedgerVars

\* nothing (more) to bet on in this iteration: the loop sleeps
BotNoSignal ==
    /\ pc = "signals"
    /\ pc' = "loop"
    /\ l_op' = Op("sleep", 0)
    /\ UNCHANGED <<today, markets, placed, files, ledger, bot, settles>>
    /\ UNCHANGED nonLedgerVars

\* state.save() after record_trade.  A save that raises is taken by the loop's
\* except: copybot_v2 breaks on a fatal error, else the loop goes on
BotTradeSave ==
    /\ pc = "trade_save"
    /\ \E fault \in BotFaults :
        LET r == save(ledger, files, fault)
        IN  /\ ledger' = r.L
            /\ files' = r.F
            /\ l_op' = Op(IF r.ok THEN "save_ok" ELSE "save_failed", 0)
            /\ IF r.ok
                  THEN pc' = IF bot.variant = "copybot_v2" THEN "signals" ELSE "loop"
                  ELSE pc' \in (IF bot.variant = "copybot_v2"
                                   THEN {"loop", "cleanup"} ELSE {"loop"})
    /\ UNCHANGED <<today, markets, placed, bot, settles>>
    /\ UNCHANGED nonLedgerVars

\* SIGINT or SIGTERM: handle_signal sets running = False
BotShutdownSignal ==
    /\ pc \notin {"down", "exited"}
    /\ bot.running
    /\ bot' = [bot EXCEPT !.running = FALSE]
    /\ UNCHANGED <<today, markets, placed, files, ledger, pc, l_op, settles>>
    /\ UNCHANGED nonLedgerVars

\* after the loop: copybot_v2 marks the pending trades, streak_bot.py marks
\* them if its own pending list is not empty, bot.py marks nothing
BotCleanup ==
    /\ pc = "cleanup"
    /\ ledger' =
        IF bot.variant = "copybot_v2"
            THEN mark_pending_as_force_exit(ledger,
                    IF bot.bankrupt THEN "insufficient_bankroll" ELSE "shutdown")
        ELSE IF bot.variant = "streak_bot" /\ bot.pending # <<>>
            THEN mark_pending_as_force_exit(ledger, "shutdown")
        ELSE ledger
    /\ pc' = "final_save"
    /\ l_op' = Op("cleanup", 0)
    /\ UNCHANGED <<today, markets, placed, files, bot, settles>>
    /\ UNCHANGED nonLedgerVars

\* the last state.save(); if it raises the process ends with the exception
BotFinalSave ==
    /\ pc = "final_save"
    /\ \E fault \in BotFaults :
        LET r == save(ledger, files, fault)
        IN  /\ ledger' = r.L
            /\ files' = r.F
            /\ l_op' = Op(IF r.ok THEN "save_ok" ELSE "save_failed", 0)
    /\ pc' = "exited"
    /\ UNCHANGED <<today, markets, placed, bot, settles>>
    /\ UNCHANGED nonLedgerVars

\* the process is killed (SIGKILL, power): its memory is gone
BotCrash ==
    /\ pc \notin {"down", "exited"}
    /\ pc' = "down"
    /\ ledger' = TradingStateInit
    /\ bot' = BotLocals(bot.variant)
    /\ l_op' = Op("crash", 0)
    /\ UNCHANGED <<today, markets, placed, files, settles>>
    /\ UNCHANGED nonLedgerVars

BotNext ==
    \/ NewDay
    \/ Resolve
    \/ BotBoot
    \/ BotLoopHead
    \/ BotSettleSkip
    \/ BotSettleDone
    \/ BotSettleError
    \/ BotSettle
    \/ BotSettleSave
    \/ BotCanTrade
    \/ BotMidnight
    \/ BotSignal
    \/ BotNoSignal
    \/ BotTradeSave
    \/ BotShutdownSignal
    \/ BotCleanup
    \/ BotFinalSave
    \/ BotCrash

SpecBot == BotInit /\ [][BotNext]_vars

(***************************************************************************)
(* SpecGate: one copybot_v2 process as a client of api_circuit and         *)
(* rate_limiter.  gate.pc is the place in the loop's iteration: "settle"   *)
(* (the for over pending), "settle_rate", "settle_fetch", "settle_write",  *)
(* "circuit_check", "poll", "signal" (the for over signals),               *)
(* "signal_allow", "signal_fetch", "signal_book", "heartbeat",             *)
(* "heartbeat_fetch", "prefetch_fetch".  The ledger is left out: whether a *)
(* trade is pending, a market resolved or a signal present is drawn freely.*)
(***************************************************************************)
\* how an upstream HTTP request ends
Upstream == {"ok", "timeout", "http_5xx", "connection_error"}

\* the places of the loop where it sends an upstream request
RequestPcs == {"settle_fetch", "poll", "signal_fetch", "signal_book",
               "heartbeat_fetch", "prefetch_fetch"}

GateInit ==
    /\ now = 0
    /\ cb = CircuitBreakerInit
    /\ cb_op = "init"
    /\ cb_from = CLOSED
    /\ cb_result = TRUE
    /\ consec_failures = 0
    /\ ho_successes = 0
    /\ LedgerIdle
    /\ GateIdle

\* api_circuit.allow_request() with the breaker's history
ApiAllowRequest ==
    /\ cb' = allow_request(cb, now).b
    /\ cb_result' = allow_request(cb, now).result
    /\ cb_op' = "allow_request"
    /\ cb_from' = cb._state
    /\ ho_successes' = IF cb'._state = HALF_OPEN /\ cb._state # HALF_OPEN THEN 0 ELSE ho_successes
    /\ UNCHANGED <<now, consec_failures>>

\* api_circuit.record_success() with the breaker's history
ApiRecordSuccess ==
    /\ cb._successes < MaxCount
    /\ cb' = record_success(cb)
    /\ cb_op' = "record_success"
    /\ cb_from' = cb._state
    /\ consec_failures' = 0
    /\ ho_successes' = IF cb._state = HALF_OPEN THEN ho_successes + 1 ELSE ho_successes
    /\ UNCHANGED <<now, cb_result>>

\* api_circuit.record_failure() with the breaker's history
ApiRecordFailure ==
    /\ cb._failures < MaxCount
    /\ cb' = record_failure(cb, now)
    /\ cb_op' = "record_failure"
    /\ cb_from' = cb._state
    /\ consec_failures' = consec_failures + 1
    /\ ho_successes' = 0
    /\ UNCHANGED <<now, cb_result>>

\* rate_limiter.allow_request() and what it returned (rl_admitted is the
\* history of SpecLimiter and is not kept here)
LimiterAllowRequest ==
    /\ rl' = RateLimiter_allow_request(rl, now).requests
    /\ rl_result' = RateLimiter_allow_request(rl, now).result
    /\ UNCHANGED rl_admitted

\* client.get_market / get_orderbook / monitor.poll: the request ends in any of
\* the ways of Upstream; the client catches every exception and returns None,
\* {} or [], so the caller sees no exception
Requested(outcome, market_fetch) ==
    [gate EXCEPT !.last = outcome,
                 !.fetch_failures =
                    IF ~market_fetch THEN @
                    ELSE IF outcome = "ok" THEN 0
                    ELSE IF @ < MaxCount THEN @ + 1 ELSE @]

\* the for over pending ends: no pending trade is left
GSettleEnd ==
    /\ gate.pc = "settle"
    /\ gate' = [gate EXCEPT !.pc = "circuit_check"]
    /\ UNCHANGED <<breakerVars, nonGateVars, rl, rl_admitted, rl_result>>

\* for trade in list(pending): if not api_circuit.allow_request(): break
GSettleAllow ==
    /\ gate.pc = "settle"
    /\ ApiAllowRequest
    /\ gate' = [gate EXCEPT !.pc = IF cb_result' THEN "settle_rate" ELSE "circuit_check"]
    /\ UNCHANGED <<nonGateVars, rl, rl_admitted, rl_result>>

\* if not rate_limiter.allow_request(): sleep; continue
GSettleRate ==
    /\ gate.pc = "settle_rate"
    /\ LimiterAllowRequest
    /\ gate' = [gate EXCEPT !.pc = IF rl_result' THEN "settle_fetch" ELSE "settle"]
    /\ UNCHANGED <<breakerVars, nonGateVars>>

\* market = client.get_market(...); api_circuit.record_success(); then the
\* market is resolved (settle_trade and save follow) or it is not
GSettleFetch ==
    /\ gate.pc = "settle_fetch"
    /\ ApiRecordSuccess
    /\ \E outcome \in Upstream, resolved \in BOOLEAN :
        /\ resolved => outcome = "ok"
        /\ gate' = [Requested(outcome, TRUE) EXCEPT
                        !.pc = IF resolved THEN "settle_write" ELSE "settle"]
    /\ UNCHANGED <<nonGateVars, rl, rl_admitted, rl_result>>

\* settle_trade, pending.remove, state.save(): done, and the for goes on
GSettleWritten ==
    /\ gate.pc = "settle_write"
    /\ gate' = [gate EXCEPT !.pc = "settle"]
    /\ UNCHANGED <<breakerVars, nonGateVars, rl, rl_admitted, rl_result>>

\* settle_trade or state.save() raises: except Exception: record_failure()
GSettleWriteError ==
    /\ gate.pc = "settle_write"
    /\ ApiRecordFailure
    /\ gate' = [gate EXCEPT !.pc = "settle"]
    /\ UNCHANGED <<nonGateVars, rl, rl_admitted, rl_result>>

\* if api_circuit.state.value == "open": sleep(5); continue
GCircuitCheck ==
    /\ gate.pc = "circuit_check"
    /\ cb' = state_read(cb, now)
    /\ cb_op' = "state"
    /\ cb_from' = cb._state
    /\ ho_successes' = IF cb'._state = HALF_OPEN /\ cb._state # HALF_OPEN THEN 0 ELSE ho_successes
    /\ gate' = [gate EXCEPT !.pc = IF cb'._state = OPEN THEN "settle" ELSE "poll"]
    /\ UNCHANGED <<now, cb_result, consec_failures>>
    /\ UNCHANGED <<nonGateVars, rl, rl_admitted, rl_result>>

\* signals = monitor.poll(): the activity request
GPoll ==
    /\ gate.pc = "poll"
    /\ \E outcome \in Upstream :
        gate' = [Requested(outcome, FALSE) EXCEPT !.pc = "signal"]
    /\ UNCHANGED <<breakerVars, nonGateVars, rl, rl_admitted, rl_result>>

\* the for over signals ends: no signal is left
GSignalEnd ==
    /\ gate.pc = "signal"
    /\ gate' = [gate EXCEPT !.pc = "heartbeat"]
    /\ UNCHANGED <<breakerVars, nonGateVars, rl, rl_admitted, rl_result>>

\* for sig in signals: if not rate_limiter.allow_request(): sleep -- and go on
GSignalRate ==
    /\ gate.pc = "signal"
    /\ LimiterAllowRequest
    /\ gate' = [gate EXCEPT !.pc = "signal_allow"]
    /\ UNCHANGED <<breakerVars, nonGateVars>>

\* if not api_circuit.allow_request(): break
GSignalAllow ==
    /\ gate.pc = "signal_allow"
    /\ ApiAllowRequest
    /\ gate' = [gate EXCEPT !.pc = IF cb_result' THEN "signal_fetch" ELSE "heartbeat"]
    /\ UNCHANGED <<nonGateVars, rl, rl_admitted, rl_result>>

\* market = client.get_market(sig.market_ts); api_circuit.record_success();
\* the signal is skipped (no market, closed, not accepting) or copied
GSignalFetch ==
    /\ gate.pc = "signal_fetch"
    /\ ApiRecordSuccess
    /\ \E outcome \in Upstream, tradeable \in BOOLEAN :
        /\ tradeable => outcome = "ok"
        /\ gate' = [Requested(outcome, TRUE) EXCEPT
                        !.pc = IF tradeable THEN "signal_book" ELSE "signal"]
    /\ UNCHANGED <<nonGateVars, rl, rl_admitted, rl_result>>

\* the order book of the token is fetched to estimate the execution, and the
\* bet is placed
GSignalBook ==
    /\ gate.pc = "signal_book"
    /\ \E outcome \in Upstream :
        gate' = [Requested(outcome, FALSE) EXCEPT !.pc = "signal"]
    /\ UNCHANGED <<breakerVars, nonGateVars, rl, rl_admitted, rl_result>>

\* less than 60 s since the last heartbeat: the iteration ends with its sleep
GHeartbeatSkip ==
    /\ gate.pc = "heartbeat"
    /\ gate' = [gate EXCEPT !.pc = "settle"]
    /\ UNCHANGED <<breakerVars, nonGateVars, rl, rl_admitted, rl_result>>

\* heartbeat, for trade in pending: if rate_limiter.allow_request(): ...
GHeartbeatRate ==
    /\ gate.pc = "heartbeat"
    /\ LimiterAllowRequest
    /\ gate' = [gate EXCEPT !.pc = IF rl_result' THEN "heartbeat_fetch" ELSE "heartbeat"]
    /\ UNCHANGED <<breakerVars, nonGateVars>>

\* market = client.get_market(trade.timestamp, use_cache=False)
GHeartbeatFetch ==
    /\ gate.pc = "heartbeat_fetch"
    /\ \E outcome \in Upstream :
        gate' = [Requested(outcome, TRUE) EXCEPT !.pc = "heartbeat"]
    /\ UNCHANGED <<breakerVars, nonGateVars, rl, rl_admitted, rl_result>>

\* the heartbeat's for is over: if api_circuit.allow_request(): prefetch
GPrefetchAllow ==
    /\ gate.pc = "heartbeat"
    /\ ApiAllowRequest
    /\ gate' = [gate EXCEPT !.pc = IF cb_result' THEN "prefetch_fetch" ELSE "settle"]
    /\ UNCHANGED <<nonGateVars, rl, rl_admitted, rl_result>>

\* client.prefetch_markets(upcoming); api_circuit.record_success()
GPrefetchFetch ==
    /\ gate.pc = "prefetch_fetch"
    /\ ApiRecordSuccess
    /\ \E outcome \in Upstream :
        gate' = [Requested(outcome, TRUE) EXCEPT !.pc = "settle"]
    /\ UNCHANGED <<nonGateVars, rl, rl_admitted, rl_result>>

GateNext ==
    \/ Tick
    \/ GSettleEnd
    \/ GSettleAllow
    \/ GSettleRate
    \/ GSettleFetch
    \/ GSettleWritten
    \/ GSettleWriteError
    \/ GCircuitCheck
    \/ GPoll
    \/ GSignalEnd
    \/ GSignalRate
    \/ GSignalAllow
    \/ GSignalFetch
    \/ GSignalBook
    \/ GHeartbeatSkip
    \/ GHeartbeatRate
    \/ GHeartbeatFetch
    \/ GPrefetchAllow
    \/ GPrefetchFetch

SpecGate == GateInit /\ [][GateNext]_vars

(***************************************************************************)
(* SpecRetry: with_retry called over and over by one thread, with or       *)
(* without the breaker and the limiter, fn ending in any way, and the clock*)
(***************************************************************************)
\* the exceptions fn raises here
RetryErrors ==
    {{"timeout"}, {"429"}, {"invalid"}, {"insufficient"},
     {"insufficient", "500"}}

\* with_retry is called at most this many times
MaxCalls == 3

RetryInit ==
    /\ now = 0
    /\ cb = CircuitBreakerInit
    /\ cb_op = "init"
    /\ cb_from = CLOSED
    /\ cb_result = TRUE
    /\ consec_failures = 0
    /\ ho_successes = 0
    /\ LedgerIdle
    /\ GateIdle

\* with_retry(fn, circuit_breaker=..., rate_limiter=...) is called, each of
\* the two given or left None
RStart ==
    /\ retry.pc = "idle"
    /\ retry.calls < MaxCalls
    /\ \E use_cb \in BOOLEAN, use_rl \in BOOLEAN :
          retry' = [RetryLocals EXCEPT !.circuit_breaker = use_cb,
                                       !.rate_limiter = use_rl,
                                       !.pc = "rate", !.outcome = "running",
                                       !.calls = retry.calls + 1]
    /\ UNCHANGED <<breakerVars, ledgerVars, gateVars, feedVars, calcVars>>

\* if rate_limiter: nothing to wait for when none was given
RNoLimiter ==
    /\ retry.pc = "rate"
    /\ ~retry.rate_limiter
    /\ retry' = [retry EXCEPT !.pc = "circuit"]
    /\ UNCHANGED <<breakerVars, ledgerVars, gateVars, feedVars, calcVars>>

\* while not rate_limiter.allow_request(): sleep(min(time_until_allowed(), 1.0))
RRate ==
    /\ retry.pc = "rate"
    /\ retry.rate_limiter
    /\ LimiterAllowRequest
    /\ IF rl_result'
          THEN /\ retry' = [retry EXCEPT !.pc = "circuit"]
               /\ UNCHANGED breakerVars
          ELSE /\ now' = IF time_until_allowed(rl', now) > 0 /\ now < MaxTime
                            THEN now + 1 ELSE now
               /\ UNCHANGED <<retry, cb, cb_op, cb_from, cb_result,
                              consec_failures, ho_successes>>
    /\ UNCHANGED <<ledgerVars, gate, feedVars, calcVars>>

\* if circuit_breaker and not circuit_breaker.allow_request(): no breaker
RNoCircuit ==
    /\ retry.pc = "circuit"
    /\ ~retry.circuit_breaker
    /\ retry' = with_retry_check_circuit(retry, TRUE)
    /\ UNCHANGED <<breakerVars, ledgerVars, gateVars, feedVars, calcVars>>

\* if circuit_breaker and not circuit_breaker.allow_request():
\*     raise CircuitOpenError
RCircuit ==
    /\ retry.pc = "circuit"
    /\ retry.circuit_breaker
    /\ ApiAllowRequest
    /\ retry' = with_retry_check_circuit(retry, cb_result')
    /\ UNCHANGED <<ledgerVars, gateVars, feedVars, calcVars>>

\* fn() returns: record_success if a breaker was given, return result
RCallReturns ==
    /\ retry.pc = "call"
    /\ IF retry.circuit_breaker THEN ApiRecordSuccess ELSE UNCHANGED breakerVars
    /\ retry' = with_retry_on_result(retry)
    /\ UNCHANGED <<ledgerVars, gateVars, feedVars, calcVars>>

\* fn() raises: record_failure if a breaker was given, then raise or compute
\* the delay
RCallRaises ==
    /\ retry.pc = "call"
    /\ \E e \in RetryErrors :
          retry' = with_retry_on_error(retry, e)
    /\ IF retry.circuit_breaker THEN ApiRecordFailure ELSE UNCHANGED breakerVars
    /\ UNCHANGED <<ledgerVars, gateVars, feedVars, calcVars>>

\* time.sleep(delay), then the next attempt; the delay is at least a tick
RSleep ==
    /\ retry.pc = "sleep"
    /\ now < MaxTime
    /\ now' = now + 1
    /\ retry' = [retry EXCEPT !.pc = "rate", !.attempt = @ + 1]
    /\ cb_op' = "tick"
    /\ cb_from' = cb._state
    /\ UNCHANGED <<cb, cb_result, consec_failures, ho_successes>>
    /\ UNCHANGED <<ledgerVars, gateVars, feedVars, calcVars>>

\* time passes between two calls and while fn runs
RTick ==
    /\ retry.pc \in {"idle", "call"}
    /\ Tick

RetryNext ==
    \/ RTick
    \/ RStart
    \/ RNoLimiter
    \/ RRate
    \/ RNoCircuit
    \/ RCircuit
    \/ RCallReturns
    \/ RCallRaises
    \/ RSleep

SpecRetry == RetryInit /\ [][RetryNext]_vars

(***************************************************************************)
(* SpecLimiter: RateLimiter.allow_request called at any time by one        *)
(* thread, and the clock                                                   *)
(***************************************************************************)
LimiterInit ==
    /\ now = 0
    /\ cb = CircuitBreakerInit
    /\ cb_op = "init"
    /\ cb_from = CLOSED
    /\ cb_result = TRUE
    /\ consec_failures = 0
    /\ ho_successes = 0
    /\ LedgerIdle
    /\ GateIdle

\* rate_limiter.allow_request(), its result and the time of the request when
\* it was admitted
RateLimiterAllowRequest ==
    /\ rl' = RateLimiter_allow_request(rl, now).requests
    /\ rl_result' = RateLimiter_allow_request(rl, now).result
    /\ rl_admitted' = IF rl_result' THEN Append(rl_admitted, now) ELSE rl_admitted
    /\ UNCHANGED <<breakerVars, ledgerVars, gate, retryVars, feedVars, calcVars>>

LimiterNext ==
    \/ Tick
    \/ RateLimiterAllowRequest

SpecLimiter == LimiterInit /\ [][LimiterNext]_vars

(***************************************************************************)
(* SpecBook: the feed's connection loop handling snapshots and deltas for  *)
(* one token of one market, subscribe_market called by the control loop,   *)
(* and the clock                                                           *)
(***************************************************************************)
\* ladders of at most MaxLevels levels, in any order
Ladders ==
    UNION {[1..n -> [price : LevelPrices, size : LevelSizes]] : n \in 0..MaxLevels}

\* the snapshots the feed sends: at most MaxLevels levels on the two sides
Snapshots ==
    {data \in [bids : Ladders, asks : Ladders] :
        Len(data.bids) + Len(data.asks) <= MaxLevels}

Sides == {"BUY", "SELL"}

\* a change whose price does not parse
MalformedChange == [side |-> "BUY", price |-> 0, size |-> 0, malformed |-> TRUE]

WellFormedChanges ==
    [side : Sides, price : LevelPrices, size : LevelSizes, malformed : {FALSE}]

\* the changes lists of the price_change messages: one change, or a
\* well-formed change followed by a malformed one or by the same change of
\* the other side
ChangesLists ==
    {<<c>> : c \in WellFormedChanges \cup {MalformedChange}}
        \cup {cd \in WellFormedChanges \X (WellFormedChanges \cup {MalformedChange}) :
                 \/ cd[2].malformed
                 \/ /\ cd[2].size = cd[1].size
                    /\ cd[2].price = cd[1].price
                    /\ cd[2].side # cd[1].side}

\* the reconnect sleep, at least one tick
reconnect_wait == 1

\* the connection loop reconnects at most this many times
MaxReconnects == 2

BookInit ==
    /\ now = 1
    /\ cb = CircuitBreakerInit
    /\ cb_op = "init"
    /\ cb_from = CLOSED
    /\ cb_result = TRUE
    /\ consec_failures = 0
    /\ ho_successes = 0
    /\ LedgerIdle
    /\ GateIdle

\* _connect_loop: the connection is made, _connected set, and every market of
\* _subscribed_markets resubscribed
WsConnect ==
    /\ ~feed.ws_open
    /\ now >= feed.retry_at
    /\ feed' = [feed EXCEPT !.ws_open = TRUE, !.connected = TRUE,
                            !.sent = feed.subscribed,
                            !.snapshot_since_connect = FALSE]
    /\ UNCHANGED <<orderbook, msg, served, walk, delta>>
    /\ UNCHANGED <<breakerVars, nonFeedVars>>

\* the connection loop after the connection ended with an exception
\* (cleared tells whether _connected.clear() ran)
connection_lost(f, cleared, t) ==
    [f EXCEPT !.ws_open = FALSE,
              !.connected = IF cleared THEN FALSE ELSE @,
              !.sent = FALSE,
              !.reconnect_count = @ + 1,
              !.retry_at = t + reconnect_wait]

\* the connection breaks: ConnectionClosed is raised in the message loop
WsConnectionClosed ==
    /\ feed.ws_open
    /\ feed.reconnect_count < MaxReconnects
    /\ feed' = connection_lost(feed, TRUE, now)
    /\ UNCHANGED <<orderbook, msg, served, walk, delta>>
    /\ UNCHANGED <<breakerVars, nonFeedVars>>

\* the server closes the connection normally: the message loop ends without
\* an exception and _connected stays set
WsClosedOK ==
    /\ feed.ws_open
    /\ feed.reconnect_count < MaxReconnects
    /\ feed' = connection_lost(feed, FALSE, now)
    /\ UNCHANGED <<orderbook, msg, served, walk, delta>>
    /\ UNCHANGED <<breakerVars, nonFeedVars>>

\* the next message arrives, a tick after the last step of the clock
Arrives ==
    /\ now < MaxTime
    /\ now' = now + 1
    /\ cb_op' = "tick"
    /\ cb_from' = cb._state
    /\ UNCHANGED <<cb, cb_result, consec_failures, ho_successes>>

\* _handle_message of a "book" message for the token
OnBook(data) ==
    /\ feed.ws_open
    /\ feed.sent
    /\ Arrives
    /\ orderbook' = <<update_from_snapshot(
                        IF orderbook = <<>> THEN CachedOrderBook ELSE orderbook[1],
                        data, now')>>
    /\ msg' = [type |-> "book", raised |-> FALSE, n |-> msg.n + 1]
    /\ feed' = [feed EXCEPT !.had_snapshot = TRUE, !.snapshot_since_connect = TRUE]
    /\ UNCHANGED served
    /\ UNCHANGED nonFeedVars

\* a "book" message is handled while no reader walks the book
HandleBook ==
    /\ \E data \in Snapshots : OnBook(data)
    /\ UNCHANGED <<walk, delta>>

\* _handle_message of a "price_change" message for the token: without a book
\* for the token the message is passed over; an exception of update_from_delta
\* ends the connection in _connect_loop's except Exception
OnPriceChange(changes) ==
    /\ feed.ws_open
    /\ feed.sent
    /\ Arrives
    /\ IF orderbook = <<>>
          THEN /\ msg' = [type |-> "price_change", raised |-> FALSE,
                          n |-> msg.n + 1]
               /\ UNCHANGED <<orderbook, feed>>
          ELSE LET r == update_from_delta(orderbook[1], changes, now')
               IN  /\ orderbook' = <<r.book>>
                   /\ msg' = [type |-> "price_change", raised |-> r.raised,
                              n |-> msg.n + 1]
                   /\ IF r.raised
                         THEN /\ feed.reconnect_count < MaxReconnects
                              /\ feed' = connection_lost(feed, TRUE, now')
                         ELSE UNCHANGED feed
    /\ UNCHANGED served
    /\ UNCHANGED nonFeedVars

\* a "price_change" message is handled while no reader walks the book
HandlePriceChange ==
    /\ \E changes \in ChangesLists : OnPriceChange(changes)
    /\ UNCHANGED <<walk, delta>>

\* subscribe_market(condition_id, token_ids): with token ids a book is made
\* for a token that has none; the subscribe message is sent when _connected
\* is set, and goes out if the connection is alive
SubscribeMarket ==
    /\ \E with_token_ids \in BOOLEAN :
          orderbook' = IF with_token_ids /\ orderbook = <<>>
                          THEN <<CachedOrderBook>> ELSE orderbook
    /\ feed' = [feed EXCEPT !.subscribed = TRUE,
                            !.sent = @ \/ (feed.connected /\ feed.ws_open)]
    /\ UNCHANGED <<msg, served, walk, delta>>
    /\ UNCHANGED <<breakerVars, nonFeedVars>>

BookNext ==
    \/ Tick
    \/ WsConnect
    \/ WsConnectionClosed
    \/ WsClosedOK
    \/ HandleBook
    \/ HandlePriceChange
    \/ SubscribeMarket

SpecBook == BookInit /\ [][BookNext]_vars

(***************************************************************************)
(* SpecCache: SpecBook together with the control loop reading the book     *)
(* through MarketDataCache                                                 *)
(***************************************************************************)
\* "Max 5s stale" of MarketDataCache.get_orderbook, in clock ticks (scaled down)
max_stale_display == 2

\* "Max 2s stale for execution" of MarketDataCache.get_execution_price, in
\* clock ticks (scaled down)
max_stale_execution == 1

\* a read served from the feed's book b at time t, or from the REST client
from_websocket(call, b, t) ==
    [call |-> call, source |-> "websocket", age |-> t - b.timestamp]

from_rest(call) == [call |-> call, source |-> "rest", age |-> 0]

\* MarketDataCache.get_orderbook at time t
MarketDataCache_get_orderbook(f, ob, t) ==
    IF f.connected /\ ob # <<>> /\ ob[1].timestamp > t - max_stale_display
        THEN from_websocket("get_orderbook", ob[1], t)
        ELSE from_rest("get_orderbook")

\* MarketDataCache.get_execution_price at time t
MarketDataCache_get_execution_price(f, ob, t) ==
    IF f.connected /\ ob # <<>> /\ ob[1].timestamp > t - max_stale_execution
        THEN from_websocket("get_execution_price", ob[1], t)
        ELSE from_rest("get_execution_price")

\* MarketDataCache.get_mid at time t, with PolymarketWebSocket.get_mid
MarketDataCache_get_mid(f, ob, t) ==
    IF f.connected /\ ob # <<>> /\ ob[1].timestamp > 0
        THEN from_websocket("get_mid", ob[1], t)
        ELSE from_rest("get_mid")

CacheGetOrderbook ==
    /\ served' = MarketDataCache_get_orderbook(feed, orderbook, now)
    /\ UNCHANGED <<orderbook, feed, msg, walk, delta>>
    /\ UNCHANGED <<breakerVars, nonFeedVars>>

CacheGetExecutionPrice ==
    /\ served' = MarketDataCache_get_execution_price(feed, orderbook, now)
    /\ UNCHANGED <<orderbook, feed, msg, walk, delta>>
    /\ UNCHANGED <<breakerVars, nonFeedVars>>

CacheGetMid ==
    /\ served' = MarketDataCache_get_mid(feed, orderbook, now)
    /\ UNCHANGED <<orderbook, feed, msg, walk, delta>>
    /\ UNCHANGED <<breakerVars, nonFeedVars>>

CacheNext ==
    \/ Tick
    \/ WsConnect
    \/ WsConnectionClosed
    \/ WsClosedOK
    \/ HandleBook
    \/ HandlePriceChange
    \/ SubscribeMarket
    \/ CacheGetOrderbook
    \/ CacheGetExecutionPrice
    \/ CacheGetMid

SpecCache == BookInit /\ [][CacheNext]_vars

(***************************************************************************)
(* SpecWalk: a reader thread in PolymarketWebSocket.get_execution_price    *)
(* walking the asks of the book it got from get_orderbook, one level a     *)
(* step, while the feed's thread handles messages for the same token       *)
(***************************************************************************)
\* the messages here touch the side the reader walks
AskSnapshots == {data \in Snapshots : data.bids = <<>>}

AskChangesLists ==
    {changes \in ChangesLists :
        \A k \in DOMAIN changes : changes[k].side = "SELL" /\ ~changes[k].malformed}

\* the list the reader's for loop reads
walk_levels(w, ob) == IF w.detached THEN w.levels ELSE ob[1].asks

\* book = self.get_orderbook(token_id); if book and book.timestamp > 0:
\* levels = self.asks; if not levels: return ...
walk_start(ob) ==
    [WalkLocals EXCEPT !.pc = "walking", !.versions = {ob[1].asks}]

\* one turn of "for level in levels": the next level of the list as it is
\* now, or the end of the loop
walk_step(w, ob) ==
    LET levels == walk_levels(w, ob)
    IN  IF w.i < Len(levels)
            THEN [w EXCEPT !.i = @ + 1, !.seen = Append(@, levels[w.i + 1])]
            ELSE [w EXCEPT !.pc = "done", !.i = 0, !.detached = FALSE,
                           !.levels = <<>>]

\* update_from_snapshot binds self.asks to a new list: a reader in its walk
\* keeps the list it had
after_snapshot(w, old, new) ==
    IF w.pc # "walking" THEN w
    ELSE [w EXCEPT !.detached = TRUE,
                   !.levels = IF w.detached THEN @ ELSE old[1].asks,
                   !.versions = @ \cup {new[1].asks}]

\* update_from_delta changes the book's list in place
after_delta(w, new) ==
    IF w.pc # "walking" THEN w
    ELSE [w EXCEPT !.versions = @ \cup {new[1].asks}]

\* the reader's one call
WalkStart ==
    /\ walk.pc = "idle"
    /\ orderbook # <<>>
    /\ orderbook[1].timestamp > 0
    /\ orderbook[1].asks # <<>>
    /\ walk' = walk_start(orderbook)
    /\ UNCHANGED <<orderbook, feed, msg, served, delta>>
    /\ UNCHANGED <<breakerVars, nonFeedVars>>

WalkStep ==
    /\ walk.pc = "walking"
    /\ walk' = walk_step(walk, orderbook)
    /\ UNCHANGED <<orderbook, feed, msg, served, delta>>
    /\ UNCHANGED <<breakerVars, nonFeedVars>>

\* the feed's thread handles a "book" message between two steps of the reader
WalkBook ==
    /\ \E data \in AskSnapshots : OnBook(data)
    /\ walk' = after_snapshot(walk, orderbook, orderbook')
    /\ UNCHANGED delta

\* the feed's thread handles a "price_change" message between two steps of
\* the reader
WalkPriceChange ==
    /\ \E changes \in AskChangesLists : OnPriceChange(changes)
    /\ walk' = after_delta(walk, orderbook')
    /\ UNCHANGED delta

WalkNext ==
    \/ WsConnect
    \/ SubscribeMarket
    \/ WalkBook
    \/ WalkPriceChange
    \/ WalkStart
    \/ WalkStep

SpecWalk == BookInit /\ [][WalkNext]_vars

(***************************************************************************)
(* Claims about the circuit breaker (checked under SpecBreaker)            *)
(***************************************************************************)

\* C6: from Closed the breaker moves to Open exactly when the number of
\* consecutive failures (failures with no success in between) reaches
\* failure_threshold; failures separated by a success never open it.
C6_OpensExactlyAtConsecutiveThreshold ==
    [][cb._state = CLOSED =>
         (cb'._state = OPEN <=> consec_failures' >= failure_threshold)]_vars

\* C7: a step from HalfOpen to Closed made by record_success happens only
\* once half_open_max_calls consecutive successes were recorded while half-open.
C7_ClosesOnlyAfterHalfOpenSuccesses ==
    [][(cb._state = HALF_OPEN /\ cb'._state = CLOSED /\ cb_op' = "record_success")
         => ho_successes' >= half_open_max_calls]_vars

\* C8: after failure_threshold consecutive record_failure calls, and until
\* recovery_time has elapsed since the last recorded failure, the breaker is
\* Open and an allow_request made then returned false.
C8_BlockedUntilRecovery ==
    (consec_failures >= failure_threshold /\ now - cb._last_failure_time < recovery_time)
        => /\ cb._state = OPEN
           /\ (cb_op = "allow_request" => cb_result = FALSE)

\* witness C8: an allow_request was refused one tick after the threshold-th
\* consecutive failure, before the recovery time was over
C8_Witness ==
    /\ consec_failures >= failure_threshold
    /\ cb_op = "allow_request"
    /\ cb_result = FALSE
    /\ now > cb._last_failure_time
    /\ now - cb._last_failure_time < recovery_time

\* C9: when the breaker is Open and now - last_failure_time >= recovery_time,
\* the next state read or allow_request moves it to HalfOpen and that
\* allow_request returns true; the passing of time alone changes nothing.
C9_LazyHalfOpen ==
    [][/\ (cb._state = OPEN /\ now - cb._last_failure_time >= recovery_time
              /\ cb_op' \in {"state", "allow_request"})
             => /\ cb'._state = HALF_OPEN
                /\ (cb_op' = "allow_request" => cb_result' = TRUE)
       /\ (cb_op' = "tick" => cb' = cb)]_vars

\* witness C9: an allow_request found the breaker Open with the recovery time
\* over, moved it to HalfOpen and was admitted
C9_Witness ==
    /\ cb_op = "allow_request"
    /\ cb_from = OPEN
    /\ cb._state = HALF_OPEN
    /\ cb_result = TRUE
    /\ now - cb._last_failure_time >= recovery_time

\* C10: any single record_failure while HalfOpen moves the breaker to Open.
C10_HalfOpenFailureReopens ==
    [][(cb._state = HALF_OPEN /\ cb_op' = "record_failure") => cb'._state = OPEN]_vars

\* witness C10: a failure was recorded while half-open and the breaker is Open
C10_Witness ==
    /\ cb_op = "record_failure"
    /\ cb_from = HALF_OPEN
    /\ cb._state = OPEN

(***************************************************************************)
(* Claims about the ledger's methods (checked under SpecLedger)            *)
(***************************************************************************)

\* C1: calling settle_trade on a trade whose status is already "settled"
\* leaves bankroll and daily_pnl as they were, so that the trade's net PnL is
\* counted exactly once.
C1_SecondSettleKeepsBankroll ==
    [][(/\ l_op'.name = "settle_trade"
        /\ settles' = settles + 1
        /\ ledger.trades[l_op'.i].settlement_status = "settled")
          => /\ ledger'.bankroll = ledger.bankroll
             /\ ledger'.daily_pnl = ledger.daily_pnl]_vars

(***************************************************************************)
(* Claims about persistence (checked under SpecPersist)                    *)
(***************************************************************************)
\* the entries of trade_history_full.json
history_entries == IF files.history = NoFile THEN <<>> ELSE files.history[1]

\* C4: no trade is appended to the history file twice, and once a save has
\* completed every trade of the ledger is in the history file.
C4_HistoryHoldsEveryTradeOnce ==
    /\ \A i, j \in DOMAIN history_entries :
            history_entries[i].id = history_entries[j].id => i = j
    /\ l_op.name = "save_ok" =>
            \A k \in DOMAIN ledger.trades :
                \E i \in DOMAIN history_entries :
                    history_entries[i].id = trade_id(ledger.trades[k])

(***************************************************************************)
(* Claims about the control loops (checked under SpecBot)                  *)
(***************************************************************************)

\* C2: "settled" and "force_exit" are terminal: while a process runs, no step
\* of it changes the status, the outcome or the PnL of a trade that has one of
\* the two statuses, nor the bankroll by settling such a trade.
C2_TerminalStatusKept ==
    [][\A i \in DOMAIN ledger.trades :
          (/\ pc \notin {"down", "exited"}
           /\ pc' \notin {"down", "exited"}
           /\ ledger.trades[i].settlement_status \in {"settled", "force_exit"})
             => /\ ledger'.trades[i].settlement_status = ledger.trades[i].settlement_status
                /\ ledger'.trades[i].outcome = ledger.trades[i].outcome
                /\ ledger'.trades[i].pnl = ledger.trades[i].pnl
                /\ (l_op' = Op("settle_trade", i) /\ pc' = "settle_save")
                        => ledger'.bankroll = ledger.bankroll]_vars

\* C3: immediately before every record_trade, can_trade evaluated on the
\* ledger as it is returns true.
C3_CanTradeBeforeEveryRecord ==
    [][placed' = placed + 1 => can_trade(ledger, today).ok]_vars

\* C5: when the control loop has exited and its last save has completed, no
\* trade is pending, neither in the ledger nor in trades.json.
C5_ExitMarksAndPersists ==
    (pc = "exited" /\ l_op.name = "save_ok") =>
        /\ \A i \in DOMAIN ledger.trades : ledger.trades[i].settlement_status # "pending"
        /\ \A i \in DOMAIN files.working[1].trades :
                files.working[1].trades[i].settlement.status # "pending"

(***************************************************************************)
(* Claims about the loop's use of the breaker (checked under SpecGate)     *)
(***************************************************************************)

\* C11: every upstream request of the loop that fails (timeout, 5xx,
\* connection error) is recorded as a failure by the breaker, and the market
\* fetch that makes failure_threshold failed fetches in a row opens a closed
\* circuit.
C11_FailedRequestCountsAsFailure ==
    [][(gate.pc \in RequestPcs /\ gate'.pc # gate.pc /\ gate'.last # "ok")
          => /\ cb_op' = "record_failure"
             /\ (gate'.fetch_failures >= failure_threshold /\ cb._state = CLOSED)
                    => cb'._state = OPEN]_vars

admitted_between(a, b) ==
    {i \in DOMAIN rl_admitted : a <= rl_admitted[i] /\ rl_admitted[i] <= b}

\* C13: every window of window_size ticks (both ends included) holds at most
\* requests_per_minute admitted requests, and a call of allow_request is
\* admitted exactly when fewer than requests_per_minute admitted requests lie
\* within the last window_size ticks.
C13_RollingWindow ==
    [][/\ \A start \in 0..MaxTime :
             Cardinality(admitted_between(start, start + window_size)')
                 <= requests_per_minute
       /\ now' = now
             => /\ rl_result' <=>
                      Cardinality(admitted_between(now - window_size, now))
                          < requests_per_minute
                /\ rl_admitted' = IF rl_result' THEN Append(rl_admitted, now)
                                                ELSE rl_admitted]_vars

\* a request was refused after the window had moved on and admitted more
C13_Witness ==
    /\ ~rl_result
    /\ Len(rl_admitted) > requests_per_minute
    /\ Len(rl) = requests_per_minute

(***************************************************************************)
(* Claims about the cached order book (checked under SpecBook)             *)
(***************************************************************************)
\* C14: in the cached book the bids are in descending order of price, the
\* asks in ascending order, and no level has size zero.
C14_SortedNoZeroSize ==
    orderbook # <<>> =>
        LET b == orderbook[1]
        IN  /\ \A i, j \in DOMAIN b.bids : i < j => b.bids[i].price >= b.bids[j].price
            /\ \A i, j \in DOMAIN b.asks : i < j => b.asks[i].price <= b.asks[j].price
            /\ \A i \in DOMAIN b.bids : b.bids[i].size # 0
            /\ \A i \in DOMAIN b.asks : b.asks[i].size # 0

\* C15: once a snapshot or a delta has been applied, best_bid is the highest
\* price of the bids (0 without a bid), best_ask the lowest price of the asks
\* (0 without an ask), and with levels on both sides mid is their mean.
C15_BestAndMidFollowLadders ==
    (orderbook # <<>> /\ msg.type # "none" /\ ~msg.raised /\ orderbook[1].timestamp > 0) =>
        LET b == orderbook[1]
        IN  /\ IF b.bids = <<>> THEN b.best_bid = 0
               ELSE /\ \E i \in DOMAIN b.bids : b.bids[i].price = b.best_bid
                    /\ \A i \in DOMAIN b.bids : b.bids[i].price <= b.best_bid
            /\ IF b.asks = <<>> THEN b.best_ask = 0
               ELSE /\ \E i \in DOMAIN b.asks : b.asks[i].price = b.best_ask
                    /\ \A i \in DOMAIN b.asks : b.asks[i].price >= b.best_ask
            /\ (b.bids # <<>> /\ b.asks # <<>>) => b.mid2 = b.best_bid + b.best_ask

\* C16: a price_change message with a malformed change leaves the cached
\* book (ladders, best prices, mid, timestamp) exactly as it was.
C16_MalformedDeltaDroppedWhole ==
    [][(msg'.n = msg.n + 1 /\ msg'.type = "price_change" /\ msg'.raised)
          => orderbook' = orderbook]_vars

\* C17: a price_change message that is handled before any snapshot for the
\* token has arrived leaves the token's cached book as it was, whether or
\* not the token was subscribed with its id beforehand.
C17_DeltaBeforeSnapshotDropped ==
    [][(msg'.n = msg.n + 1 /\ msg'.type = "price_change" /\ ~msg'.raised
          /\ ~feed.had_snapshot)
          => orderbook' = orderbook]_vars

(***************************************************************************)
(* Claims about the reads of the cached book (checked under SpecCache)     *)
(***************************************************************************)
\* C18: a read is served from the cached book only when the book's age is
\* below the freshness window of the read: max_stale_execution for
\* get_execution_price, max_stale_display for get_orderbook and get_mid.
C18_ServedOnlyWhenFresh ==
    served.source = "websocket" =>
        served.age < (IF served.call = "get_execution_price"
                         THEN max_stale_execution ELSE max_stale_display)

\* C19: once the feed has been disconnected and has reconnected, a book that
\* got its last snapshot before the disconnect is served to no read until a
\* snapshot has arrived on the new connection.
C19_NoPreDisconnectBookAfterReconnect ==
    [][(served' # served /\ served'.source = "websocket"
          /\ feed.reconnect_count > 0 /\ feed.ws_open /\ feed.had_snapshot)
          => feed.snapshot_since_connect]_vars

(***************************************************************************)
(* Claims about readers of the cached book (checked under SpecWalk)        *)
(***************************************************************************)
\* C20: the levels a reader has read when its walk of the asks ends are the
\* asks as the book held them at some moment of the walk: before or after
\* each message handled meanwhile, never a mixture.
C20_WalkSeesOneLadder ==
    walk.pc = "done" => walk.seen \in walk.versions

(***************************************************************************)
(* Execution pricing: the walk of the book and the delay impact model      *)
(* (src/src/core/polymarket.py, src/src/core/polymarket_ws.py,             *)
(* src/copybot_v2.py).  Here prices and the spread are in cents, sizes in  *)
(* shares, amounts in cents, the delay impact in tenths of a percent; a    *)
(* quotient the code computes in floating point is kept as the exact       *)
(* fraction num/den, den > 0.                                              *)
(***************************************************************************)
Rat(n, d) == [num |-> n, den |-> d]

RatEq(a, b) == a.num * b.den = b.num * a.den

RatLeq(a, b) == a.num * b.den <= b.num * a.den

Abs(x) == IF x < 0 THEN 0 - x ELSE x

\* the price 0.5 the code returns when it has no book, and CachedOrderBook.mid
\* before the first recalculation, in cents
HALF == 50
\* Config.DELAY_MODEL_BASE_COEF 0.8, in tenths
base_coef == 8
\* Config.DELAY_MODEL_MAX_IMPACT 10.0 percent, in tenths of a percent
max_impact == 100
\* Config.DELAY_MODEL_BASELINE_SPREAD 0.02, in cents
baseline_spread == 2
\* the bounds 0.01 and 0.99 of a delayed price, in cents
MIN_PRICE == 1
MAX_PRICE == 99

\* floor of the square root of x, lo * lo <= x < hi * hi
RECURSIVE isqrt_between(_, _, _)
isqrt_between(x, lo, hi) ==
    IF hi - lo <= 1 THEN lo
    ELSE LET m == (lo + hi) \div 2
         IN IF m * m <= x THEN isqrt_between(x, m, hi)
                          ELSE isqrt_between(x, lo, m)

\* 46340 * 46340 is the largest square below 2^31
isqrt(x) == isqrt_between(x, 0, IF x < 46340 THEN x + 1 ELSE 46340)

\* min(2.0, max(0.5, n / d)) for n >= 0 and d > 0
clamp_factor(n, d) ==
    IF n >= 2 * d THEN Rat(2, 1)
    ELSE IF 2 * n <= d THEN Rat(1, 2)
    ELSE Rat(n, d)

\* a mutant of calculate_impact: the cap max_impact is not applied
calculate_impact_Uncapped(delay_ms, order_size, depth_at_best, spread) ==
    IF delay_ms <= 0 THEN 0
    ELSE LET base_impact == (isqrt(delay_ms * 10) * base_coef) \div 10
             liq_factor == IF depth_at_best > 0 /\ order_size > 0
                           THEN clamp_factor(2 * order_size, depth_at_best)
                           ELSE Rat(1, 1)
             vol_factor == IF spread > 0 /\ baseline_spread > 0
                           THEN clamp_factor(spread, baseline_spread)
                           ELSE Rat(1, 1)
         IN (base_impact * liq_factor.num * vol_factor.num)
                \div (10 * liq_factor.den * vol_factor.den)

\* DelayImpactModel.calculate_impact: the impact in tenths of a percent,
\* rounded down.  sqrt(delay_ms / 1000) is isqrt(delay_ms * 10) hundredths.
calculate_impact(delay_ms, order_size, depth_at_best, spread) ==
    IF delay_ms <= 0 THEN 0
    ELSE LET base_impact == (isqrt(delay_ms * 10) * base_coef) \div 10
             liq_factor == IF depth_at_best > 0 /\ order_size > 0
                           THEN clamp_factor(2 * order_size, depth_at_best)
                           ELSE Rat(1, 1)
             vol_factor == IF spread > 0 /\ baseline_spread > 0
                           THEN clamp_factor(spread, baseline_spread)
                           ELSE Rat(1, 1)
             final_impact == (base_impact * liq_factor.num * vol_factor.num)
                                 \div (10 * liq_factor.den * vol_factor.den)
         IN Min(max_impact, final_impact)

\* the accumulators of a walk for amount_usd; the shares taken so far are
\* whole + part / part_price.  taken and divisors are history: what each
\* visited level gave (its shares in hundredths, rounded) and every price the
\* walk divided by
WalkAcc(amount_usd) ==
    [remaining |-> amount_usd, total_cost |-> 0, whole |-> 0, part |-> 0,
     part_price |-> 1, taken |-> <<>>, divisors |-> {}]

\* a mutant of book_walk: a level that covers the rest is taken whole
RECURSIVE book_walk_WholeLevels(_, _, _)
book_walk_WholeLevels(levels, i, a) ==
    IF i > Len(levels) \/ a.remaining <= 0 THEN a
    ELSE LET price == levels[i].price
             size == levels[i].size
             level_value == price * size
         IN IF level_value >= a.remaining
            THEN book_walk_WholeLevels(levels, i + 1,
                     [a EXCEPT !.whole = @ + size,
                               !.total_cost = @ + a.remaining,
                               !.remaining = 0,
                               !.taken = Append(@, [price |-> price,
                                                    cost |-> a.remaining,
                                                    shares100 |-> 100 * size])])
            ELSE book_walk_WholeLevels(levels, i + 1,
                     [a EXCEPT !.whole = @ + size,
                               !.total_cost = @ + level_value,
                               !.remaining = @ - level_value,
                               !.taken = Append(@, [price |-> price,
                                                    cost |-> level_value,
                                                    shares100 |-> 100 * size])])

\* the loop over the levels of get_execution_price, from level i on
RECURSIVE book_walk(_, _, _)
book_walk(levels, i, a) ==
    IF i > Len(levels) \/ a.remaining <= 0 THEN a
    ELSE LET price == levels[i].price
             size == levels[i].size
             level_value == price * size
         IN IF level_value >= a.remaining
            THEN book_walk(levels, i + 1,
                     [a EXCEPT !.part = a.remaining,
                               !.part_price = price,
                               !.total_cost = @ + a.remaining,
                               !.remaining = 0,
                               !.divisors = @ \cup {price},
                               !.taken = Append(@, [price |-> price,
                                                    cost |-> a.remaining,
                                                    shares100 |->
                                                        (200 * a.remaining + price)
                                                            \div (2 * price)])])
            ELSE book_walk(levels, i + 1,
                     [a EXCEPT !.whole = @ + size,
                               !.total_cost = @ + level_value,
                               !.remaining = @ - level_value,
                               !.taken = Append(@, [price |-> price,
                                                    cost |-> level_value,
                                                    shares100 |-> 100 * size])])

\* total_shares of a finished walk, times part_price
shares_num(a) == a.whole * a.part_price + a.part

\* total_cost / total_shares
walk_price(a) == Rat(a.total_cost * a.part_price, shares_num(a))

\* (filled_amount / amount_usd * 100) if amount_usd > 0 else 100.0
walk_fill_pct(a, amount_usd) ==
    IF amount_usd > 0 THEN Rat((amount_usd - a.remaining) * 100, amount_usd)
                      ELSE Rat(100, 1)

\* what a pricing call returns; walked tells a walk gave shares
Quote(price, spread, slippage_pct, fill_pct, delay_impact_pct, a, walked) ==
    [price |-> price, spread |-> spread, slippage_pct |-> slippage_pct,
     fill_pct |-> fill_pct, delay_impact_pct |-> delay_impact_pct,
     taken |-> a.taken, divisors |-> a.divisors, walked |-> walked]

\* return 0.5, 0.0, 0.0, 100.0, 0.0, None
NoBookQuote ==
    Quote(Rat(HALF, 1), 0, Rat(0, 1), Rat(100, 1), 0, WalkAcc(0), FALSE)

\* execution_price *= 1 +/- delay_impact_pct / 100, then
\* max(0.01, min(0.99, execution_price))
apply_delay(price, side, delay_impact_pct) ==
    LET moved == IF side = "BUY"
                 THEN Rat(price.num * (1000 + delay_impact_pct), price.den * 1000)
                 ELSE Rat(price.num * (1000 - delay_impact_pct), price.den * 1000)
    IN IF RatLeq(moved, Rat(MIN_PRICE, 1)) THEN Rat(MIN_PRICE, 1)
       ELSE IF RatLeq(Rat(MAX_PRICE, 1), moved) THEN Rat(MAX_PRICE, 1)
       ELSE moved

\* CachedOrderBook.get_execution_price(side, amount_usd): price, slippage and
\* fill; the ladders are walked as they are kept
CachedOrderBook_get_execution_price(b, side, amount_usd) ==
    LET levels == IF side = "BUY" THEN b.asks ELSE b.bids
        a == book_walk(levels, 1, WalkAcc(amount_usd))
        best_price == IF side = "BUY" THEN b.best_ask ELSE b.best_bid
        exec_price == walk_price(a)
    IN IF levels = <<>>
       THEN Quote(Rat(b.mid2, 2), 0, Rat(0, 1), Rat(0, 1), 0, WalkAcc(0), FALSE)
       ELSE IF shares_num(a) = 0
       THEN Quote(Rat(b.mid2, 2), 0, Rat(0, 1), Rat(0, 1), 0, a, FALSE)
       ELSE Quote(exec_price, 0,
                  IF best_price > 0
                  THEN Rat(Abs(exec_price.num - best_price * exec_price.den) * 100,
                           exec_price.den * best_price)
                  ELSE Rat(0, 1),
                  walk_fill_pct(a, amount_usd), 0, a, TRUE)

\* PolymarketWebSocket.get_execution_price(token_id, side, amount_usd,
\* copy_delay_ms), ob being _orderbooks.get(token_id)
PolymarketWebSocket_get_execution_price(ob, side, amount_usd, copy_delay_ms) ==
    IF ob # <<>> /\ ob[1].timestamp > 0
    THEN LET book == ob[1]
             q == CachedOrderBook_get_execution_price(book, side, amount_usd)
             spread == IF book.best_ask > 0 /\ book.best_bid > 0
                       THEN book.best_ask - book.best_bid ELSE 0
             depth_at_best ==
                 IF side = "BUY"
                 THEN IF book.asks # <<>>
                      THEN book.asks[1].price * book.asks[1].size ELSE 0
                 ELSE IF book.bids # <<>>
                      THEN book.bids[1].price * book.bids[1].size ELSE 0
             delay_impact_pct ==
                 calculate_impact(copy_delay_ms, amount_usd, depth_at_best, spread)
         IN IF copy_delay_ms > 0
            THEN [q EXCEPT !.price = apply_delay(q.price, side, delay_impact_pct),
                           !.spread = spread,
                           !.delay_impact_pct = delay_impact_pct]
            ELSE [q EXCEPT !.spread = spread]
    ELSE NoBookQuote

\* PolymarketClient.get_execution_price(token_id, side, amount_usd,
\* copy_delay_ms), raw being what get_orderbook returned: <<>> for {} or
\* <<[bids, asks]>>
PolymarketClient_get_execution_price(raw, side, amount_usd, copy_delay_ms) ==
    IF raw = <<>> THEN NoBookQuote
    ELSE IF raw[1].bids = <<>> \/ raw[1].asks = <<>> THEN NoBookQuote
    ELSE LET asks_sorted == sort_by_price(raw[1].asks, FALSE)
             bids_sorted == sort_by_price(raw[1].bids, TRUE)
             best_ask == asks_sorted[1].price
             best_bid == bids_sorted[1].price
             spread == best_ask - best_bid
             levels == IF side = "BUY" THEN asks_sorted ELSE bids_sorted
             depth_at_best == levels[1].price * levels[1].size
             a == book_walk(levels, 1, WalkAcc(amount_usd))
             execution_price == walk_price(a)
             slippage_pct ==
                 IF side = "BUY"
                 THEN IF best_ask > 0
                      THEN Rat((execution_price.num - best_ask * execution_price.den) * 100,
                               execution_price.den * best_ask)
                      ELSE Rat(0, 1)
                 ELSE IF best_bid > 0
                      THEN Rat((best_bid * execution_price.den - execution_price.num) * 100,
                               execution_price.den * best_bid)
                      ELSE Rat(0, 1)
             delay_impact_pct ==
                 calculate_impact(copy_delay_ms, amount_usd, depth_at_best, spread)
         IN IF shares_num(a) = 0
            THEN Quote(Rat(best_ask + best_bid, 2), spread, Rat(0, 1), Rat(0, 1),
                       0, a, FALSE)
            ELSE Quote(IF copy_delay_ms > 0
                       THEN apply_delay(execution_price, side, delay_impact_pct)
                       ELSE execution_price,
                       spread,
                       IF slippage_pct.num > 0 THEN slippage_pct ELSE Rat(0, 1),
                       walk_fill_pct(a, amount_usd),
                       IF copy_delay_ms > 0 THEN delay_impact_pct ELSE 0,
                       a, TRUE)

\* copybot_v2.estimate_execution_from_book(book, side, amount_usd,
\* copy_delay_ms), raw being the book fetched before: <<>> for None or {}
estimate_execution_from_book(raw, side, amount_usd, copy_delay_ms) ==
    IF raw = <<>> THEN NoBookQuote
    ELSE IF raw[1].bids = <<>> \/ raw[1].asks = <<>> THEN NoBookQuote
    ELSE LET asks_sorted == sort_by_price(raw[1].asks, FALSE)
             bids_sorted == sort_by_price(raw[1].bids, TRUE)
             best_ask == asks_sorted[1].price
             best_bid == bids_sorted[1].price
             spread == best_ask - best_bid
             levels == IF side = "BUY" THEN asks_sorted ELSE bids_sorted
             depth_at_best == levels[1].price * levels[1].size
             a == book_walk(levels, 1, WalkAcc(amount_usd))
             ref_price == IF side = "BUY" THEN best_ask ELSE best_bid
             execution_price == IF shares_num(a) <= 0
                                THEN Rat(best_ask + best_bid, 2)
                                ELSE walk_price(a)
             slippage_pct ==
                 IF shares_num(a) <= 0 \/ ref_price <= 0 THEN Rat(0, 1)
                 ELSE IF side = "BUY"
                 THEN Rat((execution_price.num - ref_price * execution_price.den) * 100,
                          execution_price.den * ref_price)
                 ELSE Rat((ref_price * execution_price.den - execution_price.num) * 100,
                          execution_price.den * ref_price)
             delay_impact_pct ==
                 calculate_impact(copy_delay_ms, amount_usd, depth_at_best, spread)
         IN Quote(IF copy_delay_ms > 0
                  THEN apply_delay(execution_price, side, delay_impact_pct)
                  ELSE execution_price,
                  spread,
                  IF slippage_pct.num > 0 THEN slippage_pct ELSE Rat(0, 1),
                  walk_fill_pct(a, amount_usd),
                  IF copy_delay_ms > 0 THEN delay_impact_pct ELSE 0,
                  a, shares_num(a) > 0)

(***************************************************************************)
(* SpecPricing: one pricing request (a book, a side, an amount, a copy     *)
(* delay) answered by one of the three pricing paths, and asked again      *)
(* after a longer delay                                                    *)
(***************************************************************************)
\* a ladder of a book has at most MaxBookLevels levels
MaxBookLevels == 2

\* prices of the levels the venue may send, in cents: 0 and 100 are the
\* degenerate prices 0.0 and 1.0
PriceTicks == {0, 40, 42, 100}

LevelShares == {0, 10, 20}

Amounts == {0, 600, 1200}

Delays == {0, 1000, 4000, 200000}

BookLevels == {OrderBookLevel(p, z) : p \in PriceTicks, z \in LevelShares}

RECURSIVE LaddersUpTo(_)
LaddersUpTo(n) ==
    IF n = 0 THEN {<<>>}
    ELSE LaddersUpTo(n - 1)
         \cup {Append(l, x) : l \in {k \in LaddersUpTo(n - 1) : Len(k) = n - 1},
                              x \in BookLevels}

\* the other side of the book: empty or one level
OtherSide(side) ==
    {<<>>, <<IF side = "BUY" THEN OrderBookLevel(38, 10) ELSE OrderBookLevel(44, 10)>>}

\* what get_orderbook returns: {} or a book, the ladders in any order
RawBooks(side) ==
    {<<>>}
    \cup {<<IF side = "BUY" THEN [bids |-> o, asks |-> l] ELSE [bids |-> l, asks |-> o]>> :
              l \in LaddersUpTo(MaxBookLevels), o \in OtherSide(side)}

Request(raw, side, amount_usd, copy_delay_ms) ==
    [path |-> "none", raw |-> raw, side |-> side, amount_usd |-> amount_usd,
     copy_delay_ms |-> copy_delay_ms, result |-> <<>>]

PricingInit ==
    /\ now = 1
    /\ cb = CircuitBreakerInit
    /\ cb_op = "init"
    /\ cb_from = CLOSED
    /\ cb_result = TRUE
    /\ consec_failures = 0
    /\ ho_successes = 0
    /\ LedgerIdle
    /\ rl = RateLimiterInit
    /\ rl_admitted = <<>>
    /\ rl_result = TRUE
    /\ gate = GateLocals
    /\ retry = RetryLocals
    /\ FeedIdle
    /\ classified = NoCategory
    /\ threads = NoThreads
    /\ momo = NoMomo
    /\ \E side \in {"BUY", "SELL"} :
         \E rs \in RawBooks(side) \X Amounts \X Delays :
             quote = Request(rs[1], side, rs[2], rs[3])

\* _orderbooks.get(token_id) once the feed has handled the book as a snapshot
cached(raw) ==
    IF raw = <<>> THEN <<>>
    ELSE <<update_from_snapshot([CachedOrderBook EXCEPT !.mid2 = 2 * HALF], raw[1], now)>>

\* the request answered through a path
priced(path, q, copy_delay_ms) ==
    CASE path = "client" ->
            PolymarketClient_get_execution_price(q.raw, q.side, q.amount_usd, copy_delay_ms)
      [] path = "websocket" ->
            PolymarketWebSocket_get_execution_price(cached(q.raw), q.side, q.amount_usd,
                                                    copy_delay_ms)
      [] path = "copybot" ->
            estimate_execution_from_book(q.raw, q.side, q.amount_usd, copy_delay_ms)

QuoteBy(path) ==
    /\ quote.path = "none"
    /\ quote' = [quote EXCEPT !.path = path,
                              !.result = <<priced(path, quote, quote.copy_delay_ms)>>]
    /\ UNCHANGED <<breakerVars, ledgerVars, gateVars, retryVars, feedVars, classified, threads, momo>>

QuoteClient == QuoteBy("client")

QuoteWebSocket == QuoteBy("websocket")

QuoteCopybot == QuoteBy("copybot")

\* the same request priced again by the same path after a longer delay
QuoteAgainLater ==
    /\ quote.path # "none"
    /\ \E d \in Delays :
         /\ d > quote.copy_delay_ms
         /\ quote' = [quote EXCEPT !.copy_delay_ms = d,
                                   !.result = <<priced(quote.path, quote, d)>>]
    /\ UNCHANGED <<breakerVars, ledgerVars, gateVars, retryVars, feedVars, classified, threads, momo>>

PricingNext ==
    \/ QuoteClient
    \/ QuoteWebSocket
    \/ QuoteCopybot
    \/ QuoteAgainLater

SpecPricing == PricingInit /\ [][PricingNext]_vars

\* the ladder the request walks, as the path walks it
walked_levels ==
    IF quote.raw = <<>> THEN <<>>
    ELSE IF quote.side = "BUY" THEN sort_by_price(quote.raw[1].asks, FALSE)
                               ELSE sort_by_price(quote.raw[1].bids, TRUE)

\* the side the request needs is missing: no book, or no level on that side
NeededSideEmpty == walked_levels = <<>>

\* C21: when the side of the book an order needs is empty, or there is no
\* book, every pricing path returns fill 0 and slippage 0, and as price the
\* midpoint: that of the two best prices when both sides have levels,
\* otherwise the default 0.5.
C21_EmptySideGivesMidZeroFill ==
    (quote.path # "none" /\ NeededSideEmpty) =>
        /\ RatEq(quote.result[1].fill_pct, Rat(0, 1))
        /\ RatEq(quote.result[1].slippage_pct, Rat(0, 1))
        /\ RatEq(quote.result[1].price, Rat(HALF, 1))

\* a price a contract cannot have: 0.0 or less, 1.0 or more
Degenerate(price) == price <= 0 \/ price >= 100

\* C22: a level whose price is <= 0 or >= 1 is rejected before the walk uses
\* it: no such level gives shares or cost to an execution price, and the walk
\* never divides by such a price.
C22_DegenerateLevelsRejected ==
    quote.path # "none" =>
        /\ \A i \in 1..Len(quote.result[1].taken) :
               (quote.result[1].taken[i].shares100 > 0 \/ quote.result[1].taken[i].cost > 0)
                   => ~Degenerate(quote.result[1].taken[i].price)
        /\ \A price \in quote.result[1].divisors : ~Degenerate(price)

\* the levels of the answer that gave shares
consumed == {i \in 1..Len(quote.result[1].taken) : quote.result[1].taken[i].shares100 > 0}

\* the part of the amount the walk spent
RECURSIVE cost_of(_)
cost_of(taken) ==
    IF taken = <<>> THEN 0 ELSE taken[1].cost + cost_of(Tail(taken))

\* a walk gave shares, and the price returned is the walk's (no delay impact)
WalkAnswered == quote.path # "none" /\ quote.result[1].walked

\* the price returned lies between the best and the worst consumed price
PriceWithinConsumed ==
    (WalkAnswered /\ quote.copy_delay_ms = 0) =>
        /\ \E i \in consumed :
               RatLeq(Rat(quote.result[1].taken[i].price, 1), quote.result[1].price)
        /\ \E i \in consumed :
               RatLeq(quote.result[1].price, Rat(quote.result[1].taken[i].price, 1))

\* fill_pct is 100 exactly when the levels covered the whole amount, and
\* below 100 otherwise
FillTellsCoverage ==
    WalkAnswered =>
        IF cost_of(quote.result[1].taken) = quote.amount_usd
        THEN RatEq(quote.result[1].fill_pct, Rat(100, 1))
        ELSE ~RatLeq(Rat(100, 1), quote.result[1].fill_pct)

\* the request of the worked example: asks [(0.40, 10), (0.42, 20)], buy $12
ExampleRequest ==
    /\ quote.path # "none"
    /\ quote.raw # <<>>
    /\ quote.side = "BUY"
    /\ quote.amount_usd = 1200
    /\ sort_by_price(quote.raw[1].asks, FALSE)
           = <<OrderBookLevel(40, 10), OrderBookLevel(42, 20)>>
    /\ quote.raw[1].bids # <<>>

\* C23 as stated: for a walk that consumes a level the price returned (before
\* delay impact) lies between the best and the worst consumed price, fill_pct
\* is 100 exactly when the amount was fully covered and below 100 otherwise,
\* and the example takes 10 shares at 0.40 and 4.76 shares at 0.42, fill 100.
C23_Original ==
    /\ PriceWithinConsumed
    /\ FillTellsCoverage
    /\ ExampleRequest =>
           /\ Len(quote.result[1].taken) = 2
           /\ quote.result[1].taken[1].shares100 = 1000
           /\ quote.result[1].taken[2].shares100 = 476
           /\ RatEq(quote.result[1].fill_pct, Rat(100, 1))

\* C23 amended: the same, the example taking 10 shares at 0.40 and 19.05
\* shares at 0.42 (the remaining $8 at 0.42), fill 100.
C23_WalkPriceAndFill ==
    /\ PriceWithinConsumed
    /\ FillTellsCoverage
    /\ ExampleRequest =>
           /\ Len(quote.result[1].taken) = 2
           /\ quote.result[1].taken[1].shares100 = 1000
           /\ quote.result[1].taken[2].shares100 = 1905
           /\ RatEq(quote.result[1].fill_pct, Rat(100, 1))

\* the example has been priced without delay
C23_Witness ==
    /\ ExampleRequest
    /\ WalkAnswered
    /\ quote.copy_delay_ms = 0
    /\ Cardinality(consumed) = 2

\* the same request is priced again by the same path with a delay no shorter
SameRequestLater ==
    /\ quote.path # "none"
    /\ quote'.path = quote.path
    /\ quote'.raw = quote.raw
    /\ quote'.side = quote.side
    /\ quote'.amount_usd = quote.amount_usd
    /\ quote'.copy_delay_ms >= quote.copy_delay_ms

\* the impact never exceeds max_impact, and the price the feed's path returns
\* for a delayed order is within [0.01, 0.99]
ImpactCappedPriceBounded ==
    quote.path # "none" =>
        /\ quote.result[1].delay_impact_pct <= max_impact
        /\ (quote.path = "websocket" /\ quote.copy_delay_ms > 0) =>
               /\ RatLeq(Rat(MIN_PRICE, 1), quote.result[1].price)
               /\ RatLeq(quote.result[1].price, Rat(MAX_PRICE, 1))

\* C24: for the same book, side and amount the delay impact does not decrease
\* when the delay grows, it never exceeds max_impact, and the delay-adjusted
\* price is always within [0.01, 0.99].
C24_ImpactMonotoneCappedPriceClamped ==
    /\ []ImpactCappedPriceBounded
    /\ [][SameRequestLater =>
              quote'.result[1].delay_impact_pct >= quote.result[1].delay_impact_pct]_vars

\* a delayed order priced by the feed's path with the impact at its cap and the
\* price cut to 0.99
C24_Witness ==
    /\ quote.path = "websocket"
    /\ quote.copy_delay_ms > 0
    /\ quote.result[1].walked
    /\ quote.result[1].delay_impact_pct = max_impact
    /\ RatEq(quote.result[1].price, Rat(MAX_PRICE, 1))

(***************************************************************************)
(* Claims on the control loop's settlements and the ledger's day           *)
(***************************************************************************)
\* C25: copybot_v2 settles trades in ascending order of market timestamp: when
\* a trade has just been settled, no trade still pending has an earlier market
\* timestamp.
C25_SettledInTimestampOrder ==
    (bot.variant = "copybot_v2" /\ l_op.name = "settle_trade") =>
        \A k \in 1..Len(bot.pending) :
            ledger.trades[bot.pending[k]].timestamp
                >= ledger.trades[l_op.i].timestamp

\* this step is a call of can_trade, record_trade or settle_trade
LedgerAccess ==
    /\ l_op'.name \in {"can_trade_ok", "can_trade_no", "record_trade", "settle_trade"}
    /\ ledger' # ledger \/ l_op' # l_op
    /\ today' = today

\* C26: daily_bets and daily_pnl are reset exactly once per UTC day, by the
\* first can_trade, record_trade or settle_trade after midnight, so that the
\* bet or PnL of that call is counted in the new day; no other step of a
\* running process takes the counters back.
C26_DailyResetOncePerDay ==
    [][/\ (LedgerAccess /\ ledger.last_reset_date # today) =>
              /\ ledger'.last_reset_date = today
              /\ ledger'.daily_bets = IF l_op'.name = "record_trade" THEN 1 ELSE 0
              /\ ledger'.daily_pnl = IF l_op'.name = "settle_trade"
                                     THEN ledger'.trades[l_op'.i].pnl ELSE 0
       /\ (~(LedgerAccess /\ ledger.last_reset_date # today) /\ l_op'.name # "load") =>
              ledger'.daily_bets >= ledger.daily_bets]_vars

\* this step is a call of mark_pending_as_force_exit
MarkStep ==
    /\ l_op'.name = "mark_pending_as_force_exit"
    /\ ledger' # ledger \/ l_op' # l_op

\* C27: mark_pending_as_force_exit(reason) moves every pending trade to
\* force_exit with the reason recorded and leaves bankroll, daily_pnl,
\* daily_bets and every trade that was not pending as they were.
C27_ForceExitFrame ==
    [][MarkStep =>
          /\ ledger'.bankroll = ledger.bankroll
          /\ ledger'.daily_pnl = ledger.daily_pnl
          /\ ledger'.daily_bets = ledger.daily_bets
          /\ DOMAIN ledger'.trades = DOMAIN ledger.trades
          /\ \E reason \in {"shutdown", "insufficient_bankroll"} :
                 \A i \in DOMAIN ledger.trades :
                     IF ledger.trades[i].settlement_status = "pending"
                     THEN ledger'.trades[i] =
                              [ledger.trades[i] EXCEPT
                                   !.settlement_status = "force_exit",
                                   !.force_exit_reason = reason]
                     ELSE ledger'.trades[i] = ledger.trades[i]]_vars

\* the call has just marked a trade while another trade was settled
C27_Witness ==
    /\ l_op.name = "mark_pending_as_force_exit"
    /\ \E i \in DOMAIN ledger.trades :
           ledger.trades[i].settlement_status = "force_exit"
    /\ \E i \in DOMAIN ledger.trades :
           ledger.trades[i].settlement_status = "settled"

(***************************************************************************)
(* SpecClassify: categorize_error applied to one error.  An error is the   *)
(* set of the tested substrings its lower-cased message contains: those    *)
(* its kind puts there, and the numbers (an amount, an id, a port) the     *)
(* message carries besides                                                 *)
(***************************************************************************)
\* a message carries at most MaxNumbers numbers besides what its kind says
MaxNumbers == 1

ErrorKinds ==
    {"validation", "insufficient_balance", "client_4xx", "timeout", "server_5xx",
     "connection_reset", "rate_limit"}

\* what the message of an error of the kind contains because of its kind
KindTexts(kind) ==
    CASE kind = "validation" -> {{"invalid"}, {"validation"}}
      [] kind = "insufficient_balance" -> {{"insufficient"}, {"insufficient", "balance"}}
      [] kind = "client_4xx" -> {{"400"}, {"401"}, {"403"}, {"404"}, {"422"}}
      [] kind = "timeout" -> {{"timeout"}, {"timed out"}}
      [] kind = "server_5xx" -> {{"500"}, {"502"}, {"503"}, {"504"}}
      [] kind = "connection_reset" -> {{"connection", "reset"}}
      [] kind = "rate_limit" -> {{"429"}, {"rate limit"}, {"429", "too many requests"}}

\* the digits an amount, an id or a port can put into a message
Numbers == {"429", "500", "502", "503", "504", "400", "401", "403", "404", "422"}

ClassifyInit ==
    /\ now = 0
    /\ cb = CircuitBreakerInit
    /\ cb_op = "init"
    /\ cb_from = CLOSED
    /\ cb_result = TRUE
    /\ consec_failures = 0
    /\ ho_successes = 0
    /\ LedgerIdle
    /\ rl = RateLimiterInit
    /\ rl_admitted = <<>>
    /\ rl_result = TRUE
    /\ gate = GateLocals
    /\ retry = RetryLocals
    /\ FeedIdle
    /\ quote = NoQuote
    /\ threads = NoThreads
    /\ momo = NoMomo
    /\ \E kind \in ErrorKinds :
         \E text \in KindTexts(kind) :
           \E numbers \in {n \in SUBSET Numbers : Cardinality(n) <= MaxNumbers} :
             classified = [kind |-> kind, error |-> text \cup numbers,
                           category |-> "none"]

\* category = categorize_error(e)
Categorize ==
    /\ classified.category = "none"
    /\ classified' = [classified EXCEPT !.category = categorize_error(classified.error)]
    /\ UNCHANGED <<breakerVars, ledgerVars, gateVars, retryVars, feedVars, quote, threads, momo>>

ClassifyNext == Categorize

SpecClassify == ClassifyInit /\ [][ClassifyNext]_vars

\* the category the handling of an error of the kind needs
CategoryOf(kind) ==
    CASE kind \in {"validation", "insufficient_balance", "client_4xx"} -> FATAL
      [] kind \in {"timeout", "server_5xx", "connection_reset"} -> RETRYABLE
      [] kind = "rate_limit" -> RATE_LIMITED

\* C28: every validation, insufficient-balance and 4xx (other than 429) error
\* is classified fatal, every timeout, 5xx and connection reset retryable, and
\* every 429 or rate-limit error rate-limited, whatever numbers the message
\* carries besides.
C28_ClassifiedByKind ==
    classified.category # "none" =>
        classified.category = CategoryOf(classified.kind)

(***************************************************************************)
(* Claims on with_retry and on the ladders' updates                        *)
(***************************************************************************)
\* the last attempt failed with a validation or an insufficient-funds error
FailedForGood ==
    /\ retry.last_error # <<>>
    /\ retry.last_error[1] \cap {"invalid", "validation", "insufficient", "balance"} # {}

\* C29: after a validation or insufficient-funds failure with_retry does not
\* invoke the operation again, the error is raised to the caller; a retryable
\* failure is retried at most max_retries times, after a sleep of
\* min(base_delay * 2^attempt, max_delay).
C29_FatalNotRetriedRetryableBackedOff ==
    /\ FailedForGood => (retry.pc = "idle" /\ retry.outcome = "raised")
    /\ retry.attempt <= max_retries
    /\ retry.invoked <= max_retries + 1
    /\ (retry.pc = "sleep" /\ categorize_error(retry.last_error[1]) = RETRYABLE) =>
           retry.delay = Min(base_delay * Pow2(retry.attempt), max_delay)

(***************************************************************************)
(* SpecDelta: the feed handling snapshots and price_change messages of one *)
(* change, the change and the book before it kept as history               *)
(***************************************************************************)
\* the changes of the one-change messages: a removal, or a size 1 or 2
DeltaChanges ==
    [side : Sides, price : LevelPrices, size : {0, 1, 2}, malformed : {FALSE}]

\* a "price_change" message with one change is handled
DeltaPriceChange ==
    /\ \E c \in DeltaChanges :
          /\ OnPriceChange(<<c>>)
          /\ delta' = [n |-> msg.n + 1, change |-> <<c>>, before |-> orderbook]
    /\ UNCHANGED walk

DeltaNext ==
    \/ WsConnect
    \/ SubscribeMarket
    \/ HandleBook
    \/ DeltaPriceChange

SpecDelta == BookInit /\ [][DeltaNext]_vars

\* the ladder a change is for, and the other one
ladder_of(b, side) == IF side = "BUY" THEN b.bids ELSE b.asks

other_ladder(b, side) == IF side = "BUY" THEN b.asks ELSE b.bids

\* the last message handled was a change at a price its ladder held
ChangeAtHeldPrice ==
    /\ delta.n > 0
    /\ delta.n = msg.n
    /\ delta.before # <<>>
    /\ \E i \in DOMAIN ladder_of(delta.before[1], delta.change[1].side) :
           ladder_of(delta.before[1], delta.change[1].side)[i].price
               = delta.change[1].price

\* C30: a change of size 0 at a price the ladder holds removes exactly that
\* level, a change of another size at such a price replaces only that level's
\* size; every other level of both sides stays as it was, and the price is
\* not twice in the ladder.
C30_DeltaTouchesOneLevel ==
    ChangeAtHeldPrice =>
        LET c == delta.change[1]
            before == ladder_of(delta.before[1], c.side)
            after == ladder_of(orderbook[1], c.side)
        IN  /\ other_ladder(orderbook[1], c.side) = other_ladder(delta.before[1], c.side)
            /\ SelectSeq(after, LAMBDA l : l.price # c.price)
                   = SelectSeq(before, LAMBDA l : l.price # c.price)
            /\ SelectSeq(after, LAMBDA l : l.price = c.price)
                   = IF c.size = 0 THEN <<>> ELSE <<OrderBookLevel(c.price, c.size)>>

(***************************************************************************)
(* C31: the probes of one half-open episode                                *)
(***************************************************************************)
\* the probes admitted so far in the half-open episode that breaker b is in
probes_admitted(b) == IF b._state = HALF_OPEN THEN b._half_open_calls ELSE 0

\* C31: while HalfOpen the breaker admits at most half_open_max_calls
\* requests per half-open episode: every admitted request of the episode is
\* counted, the count starts at zero when the episode starts and is never
\* lowered during it, a request is admitted only below the limit, and once
\* the limit is reached every further allow_request returns false for as
\* long as the breaker stays HalfOpen.
C31_HalfOpenAdmitsAtMostMaxCalls ==
    [][ /\ (cb_op' = "allow_request" /\ cb'._state = HALF_OPEN /\ cb_result')
            => /\ probes_admitted(cb') = probes_admitted(cb) + 1
               /\ probes_admitted(cb') <= half_open_max_calls
        /\ (cb_op' = "allow_request" /\ cb'._state = HALF_OPEN /\ ~cb_result')
            => probes_admitted(cb') = probes_admitted(cb)
        /\ (cb._state = HALF_OPEN /\ cb'._state = HALF_OPEN)
            => probes_admitted(cb') >= probes_admitted(cb)
        /\ (cb_op' = "allow_request" /\ cb._state = HALF_OPEN
                /\ probes_admitted(cb) >= half_open_max_calls)
            => ~cb_result' ]_vars

\* a half-open breaker that has admitted its probes has just refused a request
C31_Witness ==
    /\ cb_op = "allow_request"
    /\ cb_from = HALF_OPEN
    /\ cb._state = HALF_OPEN
    /\ cb._half_open_calls = half_open_max_calls
    /\ ~cb_result

(***************************************************************************)
(* SpecThreads: threads sharing one breaker. Every `with self._lock` block *)
(* is one step; allow_request is two of them, the read of self.state and   *)
(* the decision on the state that was read.                                *)
(***************************************************************************)
ThreadIds == 1..MaxThreads

\* a thread outside every breaker call
ThreadLocals == [pc |-> "idle", current_state |-> CLOSED, result |-> FALSE]

\* the second lock section of allow_request, deciding on current_state
allow_request_decide(b, current_state) ==
    IF current_state = CLOSED THEN [b |-> b, result |-> TRUE]
    ELSE IF current_state = OPEN THEN [b |-> b, result |-> FALSE]
    ELSE IF b._half_open_calls < half_open_max_calls
        THEN [b |-> [b EXCEPT !._half_open_calls = @ + 1], result |-> TRUE]
        ELSE [b |-> b, result |-> FALSE]

ThreadsInit ==
    /\ now = 0
    /\ cb = CircuitBreakerInit
    /\ cb_op = "init"
    /\ cb_from = CLOSED
    /\ cb_result = TRUE
    /\ consec_failures = 0
    /\ ho_successes = 0
    /\ LedgerIdle
    /\ rl = RateLimiterInit
    /\ rl_admitted = <<>>
    /\ rl_result = TRUE
    /\ gate = GateLocals
    /\ retry = RetryLocals
    /\ FeedIdle
    /\ quote = NoQuote
    /\ classified = NoCategory
    /\ threads = [i \in ThreadIds |-> ThreadLocals]
    /\ momo = NoMomo

\* what the threads' breaker calls leave alone
nonThreadVars == <<consec_failures, ho_successes, ledgerVars, gateVars, retryVars,
                   feedVars, quote, classified, momo>>

\* time passes
ThreadTick ==
    /\ now < MaxTime
    /\ now' = now + 1
    /\ UNCHANGED <<cb, cb_op, cb_from, cb_result, threads>>
    /\ UNCHANGED nonThreadVars

\* allow_request, first lock section: current_state = self.state
ThreadReadState(i) ==
    /\ threads[i].pc = "idle"
    /\ cb' = state_read(cb, now)
    /\ threads' = [threads EXCEPT ![i].pc = "decide", ![i].current_state = cb'._state]
    /\ cb_op' = "state"
    /\ cb_from' = cb._state
    /\ UNCHANGED <<now, cb_result>>
    /\ UNCHANGED nonThreadVars

\* allow_request, second lock section: the decision and the return
ThreadDecide(i) ==
    /\ threads[i].pc = "decide"
    /\ LET d == allow_request_decide(cb, threads[i].current_state)
       IN  /\ cb' = d.b
           /\ cb_result' = d.result
           /\ threads' = [threads EXCEPT ![i].pc = IF d.result THEN "call" ELSE "idle",
                                         ![i].result = d.result]
    /\ cb_op' = "allow_request"
    /\ cb_from' = cb._state
    /\ UNCHANGED now
    /\ UNCHANGED nonThreadVars

\* the admitted call succeeded: record_success()
ThreadRecordSuccess(i) ==
    /\ threads[i].pc = "call"
    /\ cb._successes < MaxCount
    /\ cb' = record_success(cb)
    /\ threads' = [threads EXCEPT ![i].pc = "idle"]
    /\ cb_op' = "record_success"
    /\ cb_from' = cb._state
    /\ UNCHANGED <<now, cb_result>>
    /\ UNCHANGED nonThreadVars

\* the admitted call failed: record_failure()
ThreadRecordFailure(i) ==
    /\ threads[i].pc = "call"
    /\ cb._failures < MaxCount
    /\ cb' = record_failure(cb, now)
    /\ threads' = [threads EXCEPT ![i].pc = "idle"]
    /\ cb_op' = "record_failure"
    /\ cb_from' = cb._state
    /\ UNCHANGED <<now, cb_result>>
    /\ UNCHANGED nonThreadVars

ThreadsNext ==
    \/ ThreadTick
    \/ \E i \in ThreadIds : ThreadReadState(i)
    \/ \E i \in ThreadIds : ThreadDecide(i)
    \/ \E i \in ThreadIds : ThreadRecordSuccess(i)
    \/ \E i \in ThreadIds : ThreadRecordFailure(i)

SpecThreads == ThreadsInit /\ [][ThreadsNext]_vars

\* the breaker is Open and its recovery time has not elapsed
OpenNotRecovered(b, t) == b._state = OPEN /\ t - b._last_failure_time < recovery_time

\* C32: with concurrent callers, allow_request never returns true to a caller
\* when, at the moment its decision is made, the breaker is Open with the
\* recovery time not yet elapsed, whatever record_failure and record_success
\* calls of other threads interleave with it.
C32_NoAdmissionWhileOpen ==
    [][ \A i \in ThreadIds :
          (threads[i].pc = "decide" /\ threads'[i].pc = "call")
              => ~OpenNotRecovered(cb, now) ]_vars

(***************************************************************************)
(* ThreeBarMoMoStrategy.evaluate. A candle is [open, close, volume]; the   *)
(* pandas Series are functions of the row number 1..Len(candles);          *)
(* min_body_pct is counted in thousandths, sizes are exact fractions of a  *)
(* cent.                                                                   *)
(***************************************************************************)
\* direction = (body > 0).astype(int) - (body < 0).astype(int)
direction(c) ==
    (IF c.close - c.open > 0 THEN 1 ELSE 0) - (IF c.close - c.open < 0 THEN 1 ELSE 0)

\* series.rolling(n, min_periods=n).min().fillna(0).astype(bool) at row t of a
\* boolean series
rolling_all(series, n, t) == t >= n /\ \A k \in (t - n + 1)..t : series[k]

\* mutant: a flat volume counts as increasing
volume_diff_positive_Flat(candles, k) ==
    k > 1 /\ candles[k].volume - candles[k - 1].volume >= 0

\* (volumes.diff() > 0) at row k; the first row's diff is NaN
volume_diff_positive(candles, k) ==
    k > 1 /\ candles[k].volume - candles[k - 1].volume > 0

\* (body_pct >= min_body_pct) at row k, for a positive close
body_pct_ok(candles, min_body_pct, k) ==
    Abs(candles[k].close - candles[k].open) * 1000 >= min_body_pct * candles[k].close

\* (volumes / volumes.shift(bars - 1)).clip(upper=size_cap).fillna(1.0) at row t
vol_ratio(candles, bars, t) ==
    LET first == t - (bars - 1)
    IN  IF first < 1 THEN Rat(1, 1)
        ELSE IF candles[first].volume = 0
            THEN IF candles[t].volume = 0 THEN Rat(1, 1) ELSE Rat(momo_size_cap, 1)
        ELSE IF candles[t].volume > momo_size_cap * candles[first].volume
            THEN Rat(momo_size_cap, 1)
        ELSE Rat(candles[t].volume, candles[first].volume)

\* evaluate(candles, bars=bars, min_body_pct=min_body_pct): the rows of the
\* returned frame
evaluate(candles, bars, min_body_pct) ==
    [t \in 1..Len(candles) |->
        LET is_bull == [k \in DOMAIN candles |-> direction(candles[k]) = 1]
            is_bear == [k \in DOMAIN candles |-> direction(candles[k]) = -1]
            vol_up == [k \in DOMAIN candles |-> volume_diff_positive(candles, k)]
            big == [k \in DOMAIN candles |-> body_pct_ok(candles, min_body_pct, k)]
            all_bullish == rolling_all(is_bull, bars, t)
            all_bearish == rolling_all(is_bear, bars, t)
            all_vol_increasing == IF bars > 1 THEN rolling_all(vol_up, bars - 1, t) ELSE TRUE
            body_ok == IF min_body_pct > 0 THEN rolling_all(big, bars, t) ELSE TRUE
            bullish == all_bullish /\ all_vol_increasing /\ body_ok
            bearish == all_bearish /\ all_vol_increasing /\ body_ok
            signal == (IF bullish THEN 1 ELSE 0) - (IF bearish THEN 1 ELSE 0)
            ratio == vol_ratio(candles, bars, t)
        IN  [signal |-> signal,
             size |-> IF signal # 0 THEN Rat(momo_size * ratio.num, ratio.den)
                                    ELSE Rat(0, 1)]]

(***************************************************************************)
(* SpecMomo: candles arrive and the strategy is evaluated on them          *)
(***************************************************************************)
Candles ==
    [open : {100}, close : {98, 99, 100, 101, 102}, volume : {1, 2, 5}]

MinBodyPcts == {0, 15}

MomoInit ==
    /\ now = 0
    /\ cb = CircuitBreakerInit
    /\ cb_op = "init"
    /\ cb_from = CLOSED
    /\ cb_result = TRUE
    /\ consec_failures = 0
    /\ ho_successes = 0
    /\ LedgerIdle
    /\ rl = RateLimiterInit
    /\ rl_admitted = <<>>
    /\ rl_result = TRUE
    /\ gate = GateLocals
    /\ retry = RetryLocals
    /\ FeedIdle
    /\ quote = NoQuote
    /\ classified = NoCategory
    /\ threads = NoThreads
    /\ \E bars \in 1..MaxBarsParam :
         \E min_body_pct \in MinBodyPcts :
            momo = [bars |-> bars, min_body_pct |-> min_body_pct,
                    candles |-> <<>>, out |-> <<>>]

nonMomoVars == <<breakerVars, ledgerVars, gateVars, retryVars, feedVars,
                 quote, classified, threads>>

\* the next 5-minute candle closes
MomoCandle ==
    /\ Len(momo.candles) < MaxCandles
    /\ \E c \in Candles :
         momo' = [momo EXCEPT !.candles = Append(@, c), !.out = <<>>]
    /\ UNCHANGED nonMomoVars

\* result = strategy.evaluate(candles, **params)
MomoEvaluate ==
    /\ momo.candles # <<>>
    /\ momo.out = <<>>
    /\ momo' = [momo EXCEPT !.out = evaluate(momo.candles, momo.bars, momo.min_body_pct)]
    /\ UNCHANGED nonMomoVars

MomoNext ==
    \/ MomoCandle
    \/ MomoEvaluate

SpecMomo == MomoInit /\ [][MomoNext]_vars

\* bar t and the bars-1 bars before it all point the way dir, with strictly
\* increasing volumes and, when the filter is on, bodies of at least
\* min_body_pct of the close
Qualifies(m, t, dir) ==
    /\ t - (m.bars - 1) >= 1
    /\ \A k \in (t - (m.bars - 1))..t :
         /\ IF dir = 1 THEN m.candles[k].close > m.candles[k].open
                       ELSE m.candles[k].close < m.candles[k].open
         /\ k > t - (m.bars - 1) => m.candles[k].volume > m.candles[k - 1].volume
         /\ m.min_body_pct > 0 =>
               Abs(m.candles[k].close - m.candles[k].open) * 1000
                   >= m.min_body_pct * m.candles[k].close

\* C33: ThreeBarMoMo emits +1 (or -1) on a bar exactly when that bar and the
\* bars-1 bars before it are all bullish (or all bearish, dojis excluded),
\* their volumes are strictly increasing and, when min_body_pct > 0, each
\* of them has a body of at least min_body_pct of its close; so it fires on
\* every qualifying bar of a run; and every bar with signal 0 has size 0.
C33_SignalExactlyOnQualifyingBars ==
    momo.bars > 0 /\ momo.out # <<>> =>
        \A t \in 1..Len(momo.candles) :
            /\ momo.out[t].signal \in {-1, 0, 1}
            /\ momo.out[t].signal = 1 <=> Qualifies(momo, t, 1)
            /\ momo.out[t].signal = -1 <=> Qualifies(momo, t, -1)
            /\ momo.out[t].signal = 0 => momo.out[t].size.num = 0

\* a run of bullish bars with the filter on: the strategy fired on the second
\* and on the third bar, and not on the first
C33_Witness ==
    /\ momo.bars = 2
    /\ momo.min_body_pct > 0
    /\ Len(momo.candles) = 3
    /\ momo.out # <<>>
    /\ momo.out[1].signal = 0
    /\ momo.out[2].signal = 1
    /\ momo.out[3].signal = 1

(***************************************************************************)
(* C34, C35: the control loop's requests between the breaker, the limiter  *)
(* and the upstream                                                        *)
(***************************************************************************)
\* the places of the loop where api_circuit.allow_request() has returned true
\* and neither record_success() nor record_failure() has been called since
AwaitingRecord(place) ==
    place \in {"settle_rate", "settle_fetch", "signal_fetch", "prefetch_fetch"}

\* the step calls api_circuit.record_success() or record_failure()
RecordStep ==
    /\ cb_op' \in {"record_success", "record_failure"}
    /\ cb' # cb

\* C34: every allow_request of the breaker that returned true is followed by
\* exactly one record_success or record_failure for that attempt, on every
\* control-flow path, before the loop asks the breaker again: the loop leaves
\* the places where an admitted attempt awaits its record only by recording,
\* and records nowhere else.
C34_AdmittedAttemptRecordedOnce ==
    [][ /\ (AwaitingRecord(gate.pc) /\ ~AwaitingRecord(gate'.pc)) => RecordStep
        /\ RecordStep => AwaitingRecord(gate.pc) ]_vars

\* the places of the loop where a rate-limited request is about to be sent
SendsRateLimited(place) ==
    place \in {"settle_fetch", "signal_fetch", "heartbeat_fetch"}

\* C35: the control loop sends a rate-limited upstream request only after the
\* rate limiter's allow_request returned true for it: after a rejection the
\* request is not sent until a later allow_request admits it.
C35_SentOnlyWhenLimiterAdmitted ==
    SendsRateLimited(gate.pc) => rl_result

(***************************************************************************)
(* SpecProbe: copybot_v2's loop as in SpecGate, run with the environment   *)
(* variable CIRCUIT_BREAKER_THRESHOLD set to 1, so that one failure        *)
(* recorded while Closed opens the circuit                                 *)
(***************************************************************************)
ProbeInit ==
    /\ now = 0
    /\ cb = [CircuitBreakerInit EXCEPT !.failure_threshold = ProbeThreshold]
    /\ cb_op = "init"
    /\ cb_from = CLOSED
    /\ cb_result = TRUE
    /\ consec_failures = 0
    /\ ho_successes = 0
    /\ LedgerIdle
    /\ GateIdle

SpecProbe == ProbeInit /\ [][GateNext]_vars

\* the breaker is HalfOpen with its probes used up while the loop has no
\* admitted attempt to record and no settlement being written
ProbesExhausted ==
    /\ cb._state = HALF_OPEN
    /\ cb._half_open_calls >= half_open_max_calls
    /\ ~AwaitingRecord(gate.pc)
    /\ gate.pc # "settle_write"

\* C36: the breaker never stays HalfOpen forever while the control loop keeps
\* running: it cannot reach a state in which every allow_request is rejected
\* and no result is ever recorded again.
C36_NeverStuckHalfOpen == ~ProbesExhausted

(***************************************************************************)
(* SpecStakes: the ledger driven as copybot_v2's loop drives it, started   *)
(* with --bankroll: a bet is recorded only after can_trade() said OK, for  *)
(* min(bet_amount, bankroll); a pending trade is settled once, after its   *)
(* market resolved; days pass.  pc is "up" between the calls and "bet"     *)
(* after can_trade() said OK.                                              *)
(***************************************************************************)
StakesInit ==
    /\ now = 0
    /\ cb = CircuitBreakerInit
    /\ cb_op = "init"
    /\ cb_from = CLOSED
    /\ cb_result = TRUE
    /\ consec_failures = 0
    /\ ho_successes = 0
    /\ today = 1
    /\ markets = [m \in Markets |-> "none"]
    /\ placed = 0
    /\ files = [working |-> NoFile, history |-> NoFile]
    /\ ledger = [TradingStateInit EXCEPT !.bankroll = StakesBankroll]
    /\ pc = "up"
    /\ bot = BotLocals("none")
    /\ l_op = Op("init", 0)
    /\ settles = 0
    /\ GateIdle

\* can_trade, reason = state.can_trade(); if not can_trade: ... continue
StakesCanTrade ==
    /\ pc = "up"
    /\ placed < MaxTrades
    /\ ledger' = can_trade(ledger, today).L
    /\ pc' = IF can_trade(ledger, today).ok THEN "bet" ELSE "up"
    /\ l_op' = Op(IF can_trade(ledger, today).ok THEN "can_trade_ok" ELSE "can_trade_no", 0)
    /\ UNCHANGED <<today, markets, placed, files, bot, settles>>
    /\ UNCHANGED nonLedgerVars

\* amount = min(bet_amount, state.bankroll); trade = trader.place_bet(...);
\* state.record_trade(trade)
StakesBet ==
    /\ pc = "bet"
    /\ ledger.bankroll >= MIN_BET
    /\ LET amount == IF BET_AMOUNT < ledger.bankroll THEN BET_AMOUNT ELSE ledger.bankroll
       IN  \E t \in PlacedTrades(amount) : ledger' = record_trade(ledger, t)
    /\ placed' = placed + 1
    /\ pc' = "up"
    /\ l_op' = Op("record_trade", Len(ledger.trades) + 1)
    /\ UNCHANGED <<today, markets, files, bot, settles>>
    /\ UNCHANGED nonLedgerVars

\* the settle loop: state.settle_trade(trade, market.outcome) of a pending
\* trade whose market resolved
StakesSettle ==
    /\ pc = "up"
    /\ \E i \in DOMAIN ledger.trades :
        /\ ledger.trades[i].outcome = "none"
        /\ markets[ledger.trades[i].timestamp] # "none"
        /\ ledger' = settle_trade(ledger, i, markets[ledger.trades[i].timestamp])
        /\ l_op' = Op("settle_trade", i)
    /\ settles' = settles + 1
    /\ UNCHANGED <<today, markets, placed, files, pc, bot>>
    /\ UNCHANGED nonLedgerVars

StakesNext ==
    \/ NewDay
    \/ Resolve
    \/ StakesCanTrade
    \/ StakesBet
    \/ StakesSettle

SpecStakes == StakesInit /\ [][StakesNext]_vars

(***************************************************************************)
(* C37: the stakes at risk and the bankroll                                *)
(***************************************************************************)
\* sum of the amounts of the trades of the list that have no outcome yet
RECURSIVE pending_stakes(_)
pending_stakes(trades) ==
    IF trades = <<>> THEN 0
    ELSE (IF Head(trades).outcome = "none" THEN Head(trades).amount ELSE 0)
         + pending_stakes(Tail(trades))

\* C37: bankroll never becomes negative: under any interleaving of
\* record_trade and settle_trade, the stakes of the trades that are pending at
\* the same time never exceed the bankroll available to cover their loss.
C37_StakesCoveredByBankroll ==
    /\ ledger.bankroll >= 0
    /\ pending_stakes(ledger.trades) <= ledger.bankroll

(***************************************************************************)
(* C38: the pending trades of the file after a restart                     *)
(***************************************************************************)
\* C38: after a crash and restart, every trade that was pending in the
\* persisted ledger is picked up again by the control loop (so that it is
\* eventually settled or force-exited, once): the process that starts has
\* every pending trade it loaded in its pending list.
C38_PendingPickedUpAfterRestart ==
    [][ (pc \in {"down", "exited"} /\ pc' = "loop") =>
            \A i \in DOMAIN ledger'.trades :
                ledger'.trades[i].settlement_status = "pending" =>
                    \E k \in DOMAIN bot'.pending : bot'.pending[k] = i ]_vars

(***************************************************************************)
(* C39: save() followed by load()                                          *)
(***************************************************************************)
\* the fields of a trade that the round trip is to keep
kept_fields(t) ==
    <<t.timestamp, t.executed_at, t.direction, t.amount, t.execution_price, t.fee_pct,
      t.settlement_status, t.force_exit_reason, t.outcome, t.pnl>>

\* C39: load after a completed save restores the ledger that was saved:
\* bankroll, daily_bets, daily_pnl and last_reset_date are equal, and each
\* retained trade has the same identity, amount, execution price, fee rate,
\* status, force-exit reason, outcome and PnL.
C39_LoadRestoresSaved ==
    l_op.name = "save_ok" =>
        LET restored == load(files)
            retained == LastN(ledger.trades, WORKING_KEEP)
        IN  /\ restored.bankroll = ledger.bankroll
            /\ restored.daily_bets = ledger.daily_bets
            /\ restored.daily_pnl = ledger.daily_pnl
            /\ restored.last_reset_date = ledger.last_reset_date
            /\ Len(restored.trades) = Len(retained)
            /\ \A i \in DOMAIN retained :
                    kept_fields(restored.trades[i]) = kept_fields(retained[i])

(***************************************************************************)
(* C40: time_until_allowed and allow_request                               *)
(***************************************************************************)
\* the step is a call of rate_limiter.allow_request()
LimiterAllowStep ==
    /\ now' = now
    /\ rl' = RateLimiter_allow_request(rl, now).requests
    /\ rl_result' = RateLimiter_allow_request(rl, now).result

\* time_until_allowed() returned w when it was called w ticks ago, and no
\* request has been admitted since
WaitedOut(w) ==
    /\ now - w >= 0
    /\ \A k \in DOMAIN rl : rl[k] <= now - w
    /\ time_until_allowed(rl, now - w) = w

\* C40: time_until_allowed agrees with allow_request: whenever it returns 0
\* an immediate allow_request admits the request, and whenever it returns
\* w > 0 an allow_request made after waiting w, with no other request
\* admitted meanwhile, admits it.
C40_WaitThenAdmitted ==
    [][ LimiterAllowStep =>
          /\ time_until_allowed(rl, now) = 0 => rl_result'
          /\ \A w \in 1..window_size : WaitedOut(w) => rl_result' ]_vars

====
